---- MODULE Spec2Model ----
(***************************************************************************)
(* The agent orchestration loop of mcp_agent/agent_core.py (run_agent) and *)
(* the pure helpers it composes.                                           *)
(*                                                                         *)
(* Text is a sequence of Unicode code points.  A JSON value is a node      *)
(* [t, s, n, items]: t is the JSON type, s the characters of a string (or  *)
(* of a key), n the number, items the children (of a list, of a mapping,   *)
(* or the single value of a key/value pair).                               *)
(***************************************************************************)
EXTENDS Integers, Sequences, FiniteSets, TLC

VARIABLES
    pc,            \* "model" (in llm_chat), "tool" (in run_tool), "returned", "raised"
    hints,         \* hinted_cluster / hinted_namespace / hinted_window / hinted_status
    messages,      \* the conversation: sequence of [role, content]
    tool_calls,    \* the executed-tool-call counter
    lang_retry,    \* the final-envelope rejection counter
    raw_retry,     \* the raw-text retry counter of the current model turn
    trace,         \* the trace: sequence of [type, retry, detail, content]
    result,        \* the envelope run_agent returned (JNull until it returns)
    error,         \* the exception that left run_agent ("none" until it raises)
    llm_calls,     \* number of llm_chat calls made so far
    tool_runs,     \* number of run_tool calls made so far
    proposed,      \* the tool_call object the model proposed for the request in flight
    request,       \* the run_tool request in flight: [tool, args]
    followed,      \* how many more replies of the model the run is followed for
    peer,          \* the locals of a second invocation of run_agent, while it waits
    running,       \* which of the two invocations the variables above belong to
    probe          \* a direct call of a pure function: its input and its result

locals == <<pc, hints, messages, tool_calls, lang_retry, raw_retry, trace, result,
            error, llm_calls, tool_runs, proposed, request, followed>>

vars == <<locals, peer, running, probe>>

-----------------------------------------------------------------------------
(* Configuration: agent_core.py lines 19-29 (defaults of the environment). *)

MAX_TOOL_CALLS == 2
WINDOW_MIN == 5
WINDOW_MAX == 20160
LIMIT_MIN == 1
LIMIT_MAX == 20
MAX_LANG_RETRY == 3
RAW_RETRY_MAX == 2

(* Bounds of the model: the number of model replies a run is followed for. *)
MaxModelCalls == 5
MaxTurnReplies == 1

-----------------------------------------------------------------------------
(* Characters *)

HAN_FIRST == 19968      \* U+4E00
HAN_LAST == 40959       \* U+9FFF
LBRACE == 123
RBRACE == 125

\* re.search over the range U+4E00..U+9FFF
contains_cjk(text) ==
    \E i \in 1..Len(text) : text[i] >= HAN_FIRST /\ text[i] <= HAN_LAST

RECURSIVE Concat(_)
Concat(seqs) ==
    IF seqs = <<>> THEN <<>> ELSE Head(seqs) \o Concat(Tail(seqs))

\* sep.join(parts)
RECURSIVE Join(_, _)
Join(parts, sep) ==
    IF parts = <<>> THEN <<>>
    ELSE IF Len(parts) = 1 THEN parts[1]
    ELSE parts[1] \o sep \o Join(Tail(parts), sep)

IsSpace(c) == c \in {32, 9, 10, 13}

\* str.strip()
RECURSIVE lstrip(_)
lstrip(s) == IF s # <<>> /\ IsSpace(Head(s)) THEN lstrip(Tail(s)) ELSE s
RECURSIVE rstrip(_)
rstrip(s) ==
    IF s # <<>> /\ IsSpace(s[Len(s)]) THEN rstrip(SubSeq(s, 1, Len(s) - 1)) ELSE s
strip(s) == rstrip(lstrip(s))

-----------------------------------------------------------------------------
(* String literals of the source, as code points. *)

K_action == <<97, 99, 116, 105, 111, 110>>
K_tool == <<116, 111, 111, 108>>
K_args == <<97, 114, 103, 115>>
K_title == <<116, 105, 116, 108, 101>>
K_summary == <<115, 117, 109, 109, 97, 114, 121>>
K_findings == <<102, 105, 110, 100, 105, 110, 103, 115>>
K_next_actions == <<110, 101, 120, 116, 95, 97, 99, 116, 105, 111, 110, 115>>
K_cluster == <<99, 108, 117, 115, 116, 101, 114>>
K_namespace == <<110, 97, 109, 101, 115, 112, 97, 99, 101>>
K_window_minutes == <<119, 105, 110, 100, 111, 119, 95, 109, 105, 110, 117, 116, 101, 115>>
K_status == <<115, 116, 97, 116, 117, 115>>
K_limit == <<108, 105, 109, 105, 116>>
K_min_delta == <<109, 105, 110, 95, 100, 101, 108, 116, 97>>
K_min_ratio == <<109, 105, 110, 95, 114, 97, 116, 105, 111>>

S_final == <<102, 105, 110, 97, 108>>
S_tool_call == <<116, 111, 111, 108, 95, 99, 97, 108, 108>>
S_error == <<101, 114, 114, 111, 114>>
S_warn == <<119, 97, 114, 110>>
S_info == <<105, 110, 102, 111>>
S_null == <<110, 117, 108, 108>>
S_current_error_services ==
    <<99, 117, 114, 114, 101, 110, 116, 95, 101, 114, 114, 111, 114, 95,
      115, 101, 114, 118, 105, 99, 101, 115>>
S_increasing_error_services ==
    <<105, 110, 99, 114, 101, 97, 115, 105, 110, 103, 95, 101, 114, 114, 111, 114, 95,
      115, 101, 114, 118, 105, 99, 101, 115>>

\* "한국어로만 출력해야 하나, 모델 출력에 비한국어 문구가 포함되어 일부 내용을 생략했습니다."
FALLBACK_SENTENCE ==
    <<54620, 44397, 50612, 47196, 47564, 32, 52636, 47141, 54644, 50556, 32, 54616,
      45208, 44, 32, 47784, 45944, 32, 52636, 47141, 50640, 32, 48708, 54620, 44397,
      50612, 32, 47928, 44396, 44032, 32, 54252, 54632, 46104, 50612, 32, 51068, 48512,
      32, 45236, 50857, 51012, 32, 49373, 47029, 54664, 49845, 45768, 45796, 46>>

\* "LLM 출력 오류"
PARSE_TITLE == <<76, 76, 77, 32, 52636, 47141, 32, 50724, 47448>>
\* "LLM이 유효한 JSON을 반환하지 않았습니다. 모델/프롬프트 규칙을 확인하십시오."
PARSE_SUMMARY ==
    <<76, 76, 77, 51060, 32, 50976, 54952, 54620, 32, 74, 83, 79, 78, 51012, 32, 48152,
      54872, 54616, 51648, 32, 50506, 50520, 49845, 45768, 45796, 46, 32, 47784, 45944,
      47, 54532, 47212, 54532, 53944, 32, 44508, 52825, 51012, 32, 54869, 51064, 54616,
      49901, 49884, 50724, 46>>
PARSE_NEXT_ACTIONS ==
    <<
      <<79, 76, 76, 65, 77, 65, 95, 77, 79, 68, 69, 76, 44284, 32, 84, 79, 79, 76, 95, 83,
        80, 69, 67, 32, 44508, 52825, 51012, 32, 54869, 51064, 54633, 45768, 45796, 46>>,
      <<76, 76, 77, 51060, 32, 74, 83, 79, 78, 47564, 32, 52636, 47141, 54616, 46020,
        47197, 32, 115, 121, 115, 116, 101, 109, 32, 112, 114, 111, 109, 112, 116, 47484,
        32, 44053, 54868, 54633, 45768, 45796, 46>>,
      <<46041, 51068, 32, 51656, 47928, 51004, 47196, 32, 51116, 49884, 46020, 54644, 32,
        52636, 47141, 32, 54805, 49885, 51012, 32, 54869, 51064, 54633, 45768, 45796, 46>>
    >>

\* "알 수 없는 action"
UNKNOWN_TITLE == <<50508, 32, 49688, 32, 50630, 45716, 32, 97, 99, 116, 105, 111, 110>>
\* "LLM이 알 수 없는 action을 반환했습니다: "
UNKNOWN_SUMMARY ==
    <<76, 76, 77, 51060, 32, 50508, 32, 49688, 32, 50630, 45716, 32, 97, 99, 116, 105,
      111, 110, 51012, 32, 48152, 54872, 54664, 49845, 45768, 45796, 58, 32>>
UNKNOWN_NEXT_ACTIONS ==
    <<
      <<84, 79, 79, 76, 95, 83, 80, 69, 67, 51032, 32, 97, 99, 116, 105, 111, 110, 32,
        51221, 51032, 47484, 32, 51216, 44160, 54633, 45768, 45796, 46>>,
      <<47784, 45944, 51060, 32, 74, 83, 79, 78, 32, 44508, 52825, 51012, 32, 51456,
        49688, 54616, 45716, 51648, 32, 54869, 51064, 54633, 45768, 45796, 46>>,
      <<46041, 51068, 32, 51656, 47928, 51004, 47196, 32, 51116, 49884, 46020, 54616,
        50668, 32, 52636, 47141, 32, 54056, 53556, 51012, 32, 54869, 51064, 54633, 45768,
        45796, 46>>
    >>

-----------------------------------------------------------------------------
(* JSON values (what json.loads returns, what json.dumps takes). *)

JNull == [t |-> "null", s |-> <<>>, n |-> 0, items |-> <<>>]
JStr(s) == [t |-> "str", s |-> s, n |-> 0, items |-> <<>>]
JInt(n) == [t |-> "int", s |-> <<>>, n |-> n, items |-> <<>>]
\* a float with one decimal, n in tenths
JFloat(tenths) == [t |-> "float", s |-> <<>>, n |-> tenths, items |-> <<>>]
JBool(b) == [t |-> "bool", s |-> <<>>, n |-> IF b THEN 1 ELSE 0, items |-> <<>>]
JList(xs) == [t |-> "list", s |-> <<>>, n |-> 0, items |-> xs]
KV(k, v) == [t |-> "kv", s |-> k, n |-> 0, items |-> <<v>>]
JDict(kvs) == [t |-> "dict", s |-> <<>>, n |-> 0, items |-> kvs]

\* bool(x): Python truthiness
truthy(x) ==
    CASE x.t = "null" -> FALSE
      [] x.t = "str" -> x.s # <<>>
      [] x.t \in {"int", "float", "bool"} -> x.n # 0
      [] OTHER -> x.items # <<>>

\* k in d
HasKey(d, k) == \E i \in 1..Len(d.items) : d.items[i].s = k

\* d.get(k, default)
GetOr(d, k, default) ==
    IF HasKey(d, k)
    THEN d.items[CHOOSE i \in 1..Len(d.items) : d.items[i].s = k].items[1]
    ELSE default

\* d.get(k)
Get(d, k) == GetOr(d, k, JNull)

\* d[k] = v (a present key keeps its position, a new key goes last)
Put(d, k, v) ==
    IF HasKey(d, k)
    THEN JDict([i \in 1..Len(d.items) |->
                  IF d.items[i].s = k THEN KV(k, v) ELSE d.items[i]])
    ELSE JDict(Append(d.items, KV(k, v)))

Keys(d) == {d.items[i].s : i \in 1..Len(d.items)}

-----------------------------------------------------------------------------
(* json.dumps(obj, ensure_ascii=False) and the escaped form a reply may use *)

RECURSIVE DecimalDigits(_)
DecimalDigits(n) ==
    IF n < 10 THEN <<48 + n>> ELSE DecimalDigits(n \div 10) \o <<48 + (n % 10)>>

IntText(n) == IF n < 0 THEN <<45>> \o DecimalDigits(0 - n) ELSE DecimalDigits(n)

FloatText(tenths) ==
    (IF tenths < 0 THEN <<45>> ELSE <<>>)
    \o DecimalDigits((IF tenths < 0 THEN 0 - tenths ELSE tenths) \div 10)
    \o <<46>> \o DecimalDigits((IF tenths < 0 THEN 0 - tenths ELSE tenths) % 10)

HexDigit(d) == IF d < 10 THEN 48 + d ELSE 87 + d

\* \uXXXX
UEscape(c) ==
    <<92, 117, HexDigit(c \div 4096), HexDigit((c \div 256) % 16),
      HexDigit((c \div 16) % 16), HexDigit(c % 16)>>

StrText(s, ascii) ==
    <<34>> \o Concat([i \in 1..Len(s) |->
                        IF ascii /\ s[i] > 127 THEN UEscape(s[i]) ELSE <<s[i]>>])
    \o <<34>>

RECURSIVE Dumps(_, _)
Dumps(x, ascii) ==
    CASE x.t = "null" -> S_null
      [] x.t = "bool" -> IF x.n = 1 THEN <<116, 114, 117, 101>> ELSE <<102, 97, 108, 115, 101>>
      [] x.t = "int" -> IntText(x.n)
      [] x.t = "float" -> FloatText(x.n)
      [] x.t = "str" -> StrText(x.s, ascii)
      [] x.t = "list" ->
            <<91>> \o Join([i \in 1..Len(x.items) |-> Dumps(x.items[i], ascii)], <<44, 32>>)
            \o <<93>>
      [] x.t = "kv" -> StrText(x.s, ascii) \o <<58, 32>> \o Dumps(x.items[1], ascii)
      [] x.t = "dict" ->
            <<LBRACE>>
            \o Join([i \in 1..Len(x.items) |-> Dumps(x.items[i], ascii)], <<44, 32>>)
            \o <<RBRACE>>

json_dumps(obj) == Dumps(obj, FALSE)

-----------------------------------------------------------------------------
(* Language enforcement helpers *)

\* a Han string replaced by the empty string
_fix_str_blank(x) ==
    IF x.t # "str" THEN x
    ELSE IF contains_cjk(x.s) THEN JStr(<<>>)
    ELSE x

_fix_str(x) ==
    IF x.t # "str" THEN x
    ELSE IF contains_cjk(x.s) THEN JStr(FALLBACK_SENTENCE)
    ELSE x

RECURSIVE _walk(_)
_walk(x) ==
    IF x.t = "dict"
    THEN JDict([i \in 1..Len(x.items) |-> KV(x.items[i].s, _walk(x.items[i].items[1]))])
    ELSE IF x.t = "list"
    THEN JList([i \in 1..Len(x.items) |-> _walk(x.items[i])])
    ELSE IF x.t = "str"
    THEN _fix_str(x)
    ELSE x

sanitize_korean_only(obj) == _walk(obj)

-----------------------------------------------------------------------------
(* Python conversions used by the validator: int(x), float(x).  A result is *)
(* [exc, v]: exc is "none" or the exception class raised.                   *)

IsDigit(c) == c >= 48 /\ c <= 57

RECURSIVE DigitsValue(_)
DigitsValue(s) ==
    IF s = <<>> THEN 0 ELSE 10 * DigitsValue(SubSeq(s, 1, Len(s) - 1)) + (s[Len(s)] - 48)

\* int("  -45 "): optional sign, decimal digits, surrounding white space
IntLiteral(s) ==
    LET b == strip(s)
        neg == b # <<>> /\ b[1] = 45
        d == IF b # <<>> /\ b[1] \in {43, 45} THEN Tail(b) ELSE b
    IN  IF d # <<>> /\ \A i \in 1..Len(d) : IsDigit(d[i])
        THEN [exc |-> "none", v |-> IF neg THEN 0 - DigitsValue(d) ELSE DigitsValue(d)]
        ELSE [exc |-> "ValueError", v |-> 0]

\* int(x)
py_int(x) ==
    CASE x.t \in {"int", "bool"} -> [exc |-> "none", v |-> x.n]
      [] x.t = "float" ->
            [exc |-> "none",
             v |-> IF x.n < 0 THEN 0 - ((0 - x.n) \div 10) ELSE x.n \div 10]
      [] x.t = "str" -> IntLiteral(x.s)
      [] OTHER -> [exc |-> "TypeError", v |-> 0]

\* float(x), in tenths
py_float(x) ==
    CASE x.t \in {"int", "bool"} -> [exc |-> "none", v |-> 10 * x.n]
      [] x.t = "float" -> [exc |-> "none", v |-> x.n]
      [] x.t = "str" ->
            [exc |-> IntLiteral(x.s).exc, v |-> 10 * IntLiteral(x.s).v]
      [] OTHER -> [exc |-> "TypeError", v |-> 0]

Min(a, b) == IF a <= b THEN a ELSE b
Max(a, b) == IF a >= b THEN a ELSE b

\* a clamp that sends every value below the upper bound to the lower bound
clamp_int_to_a_bound(v, lo, hi) == IF v >= hi THEN hi ELSE lo

\* a clamp that forgets the upper bound
clamp_int_from_below(v, lo, hi) == Max(lo, v)

clamp_int(v, lo, hi) == Max(lo, Min(hi, v))

\* on tenths
clamp_float(v, lo, hi) == Max(lo, Min(hi, v))

-----------------------------------------------------------------------------
(* Tool call validation / normalisation.  The result is [exc, msg, call]:   *)
(* exc "none" and the normalised call, or the exception raised, its message *)
(* and the call as the steps before the raise left it (args is mutated in   *)
(* place).                                                                  *)

Raised(exc, msg, call) == [exc |-> exc, msg |-> msg, call |-> call]

IsBlankOrNotStr(x) == x.t # "str" \/ strip(x.s) = <<>>

\* lines 238-243
NormalizeRatios(call, tool, args) ==
    IF tool = JStr(S_increasing_error_services)
    THEN LET d == py_int(GetOr(args, K_min_delta, JInt(10)))
             r == py_float(GetOr(args, K_min_ratio, JFloat(20)))
         IN  IF d.exc # "none"
             THEN Raised(d.exc, "invalid literal for int()", Put(call, K_args, args))
             ELSE IF r.exc # "none"
             THEN Raised(r.exc, "could not convert to float",
                         Put(call, K_args,
                             Put(args, K_min_delta, JInt(clamp_int(d.v, 1, 999999)))))
             ELSE Raised("none", "",
                         Put(call, K_args,
                             Put(Put(args, K_min_delta, JInt(clamp_int(d.v, 1, 999999))),
                                 K_min_ratio, JFloat(clamp_float(r.v, 10, 1000)))))
    ELSE Raised("none", "", Put(call, K_args, args))

\* lines 233-236
NormalizeNumbers(call, tool, args) ==
    LET w == py_int(GetOr(args, K_window_minutes, JInt(15)))
        l == py_int(GetOr(args, K_limit, JInt(10)))
    IN  IF w.exc # "none"
        THEN Raised(w.exc, "invalid literal for int()", Put(call, K_args, args))
        ELSE IF l.exc # "none"
        THEN Raised(l.exc, "invalid literal for int()", Put(call, K_args, args))
        ELSE NormalizeRatios(call, tool,
                 Put(Put(args, K_window_minutes,
                         JInt(clamp_int(w.v, WINDOW_MIN, WINDOW_MAX))),
                     K_limit, JInt(clamp_int(l.v, LIMIT_MIN, LIMIT_MAX))))

\* lines 223-231
NormalizeNamespace(call, tool, args) ==
    LET namespace == GetOr(args, K_namespace, JNull)
    IN  IF namespace.t = "null"
        THEN NormalizeNumbers(call, tool, Put(args, K_namespace, JNull))
        ELSE IF namespace.t # "str"
        THEN Raised("ValueError", "namespace must be a string or null",
                    Put(call, K_args, args))
        ELSE NormalizeNumbers(call, tool,
                 Put(args, K_namespace,
                     IF strip(namespace.s) # <<>> THEN JStr(strip(namespace.s))
                     ELSE JNull))

\* lines 214-221
NormalizeStatus(call, tool, args) ==
    LET given == GetOr(args, K_status, JStr(S_error))
        status == IF given.t = "null" THEN JStr(S_error) ELSE given
    IN  IF status.t # "str"
        THEN Raised("ValueError", "status must be a string", Put(call, K_args, args))
        ELSE NormalizeNamespace(call, tool,
                 Put(args, K_status,
                     IF strip(status.s) # <<>> THEN JStr(strip(status.s))
                     ELSE JStr(S_error)))

\* lines 208-212
NormalizeCluster(call, tool, args) ==
    LET cluster == Get(args, K_cluster)
    IN  IF IsBlankOrNotStr(cluster)
        THEN Raised("ValueError", "cluster must be specified explicitly", call)
        ELSE NormalizeStatus(call, tool, Put(args, K_cluster, JStr(strip(cluster.s))))

\* the cluster check ahead of the tool whitelist
validate_cluster_first(call) ==
    IF Get(call, K_action) # JStr(S_tool_call)
    THEN Raised("ValueError", "Not a tool_call action", call)
    ELSE LET tool == Get(call, K_tool)
             given == Get(call, K_args)
             args == IF truthy(given) THEN given ELSE JDict(<<>>)
         IN  IF args.t # "dict"
             THEN Raised("AttributeError", "object has no attribute 'get'", call)
             ELSE IF IsBlankOrNotStr(Get(args, K_cluster))
             THEN Raised("ValueError", "cluster must be specified explicitly", call)
             ELSE IF tool \notin {JStr(S_current_error_services),
                                  JStr(S_increasing_error_services)}
             THEN Raised("ValueError", "Tool not allowed", call)
             ELSE NormalizeCluster(call, tool, args)

validate_and_normalize_call(call) ==
    IF Get(call, K_action) # JStr(S_tool_call)
    THEN Raised("ValueError", "Not a tool_call action", call)
    ELSE LET tool == Get(call, K_tool)
             given == Get(call, K_args)
             args == IF truthy(given) THEN given ELSE JDict(<<>>)
         IN  IF tool \notin {JStr(S_current_error_services),
                             JStr(S_increasing_error_services)}
             THEN Raised("ValueError", "Tool not allowed", call)
             ELSE IF args.t # "dict"
             THEN Raised("AttributeError", "object has no attribute 'get'", call)
             ELSE NormalizeCluster(call, tool, args)

-----------------------------------------------------------------------------
(* Hint backfill of run_agent, lines 380-390.  Result [exc, obj].           *)

hint_backfill(obj, h) ==
    LET withArgs == IF HasKey(obj, K_args) THEN obj ELSE Put(obj, K_args, JDict(<<>>))
        given == Get(withArgs, K_args)
        args0 == IF truthy(given) THEN given ELSE JDict(<<>>)
        cluster == Get(args0, K_cluster)
        args1 == IF truthy(h.cluster) /\ IsBlankOrNotStr(cluster)
                 THEN Put(args0, K_cluster, h.cluster) ELSE args0
        args2 == IF truthy(h.namespace)
                    /\ Get(args1, K_namespace) \in {JNull, JStr(<<>>), JStr(S_null)}
                 THEN Put(args1, K_namespace, h.namespace) ELSE args1
        args3 == IF truthy(h.window)
                 THEN Put(args2, K_window_minutes, h.window) ELSE args2
        args4 == IF truthy(h.status) /\ Get(args3, K_status).t = "null"
                 THEN Put(args3, K_status, h.status) ELSE args3
    IN  IF args0.t # "dict"
        THEN [exc |-> IF truthy(h.cluster) \/ truthy(h.namespace) \/ ~truthy(h.window)
                      THEN "AttributeError" ELSE "TypeError",
              obj |-> withArgs]
        ELSE [exc |-> "none", obj |-> Put(withArgs, K_args, args4)]

-----------------------------------------------------------------------------
(* run_tool(tool, args) passes args as keyword arguments, which must be     *)
(* parameters of the tool (tools_client.py); otherwise the call raises      *)
(* TypeError before any request is sent.                                    *)

ToolParams(tool) ==
    IF tool = JStr(S_current_error_services)
    THEN {K_cluster, K_window_minutes, K_limit, K_status, K_namespace}
    ELSE {K_cluster, K_window_minutes, K_limit, K_min_delta, K_min_ratio, K_status,
          K_namespace}

run_tool_accepts(tool, args) == Keys(args) \subseteq ToolParams(tool)

-----------------------------------------------------------------------------
(* What the model may reply (llm_chat returns free-form text).  The objects *)
(* below are the JSON objects the replies embed; json.loads is their        *)
(* inverse.                                                                 *)

KO_GA == <<44032>>
KO_NA == <<45208>>
KO_DA == <<45796>>
HAN_TEXT == <<28450, 23383>>
NAME_C1 == <<99, 49>>
NAME_C2 == <<99, 50>>
NAME_N1 == <<110, 49>>
NAME_N2 == <<110, 50>>
S_rm == <<114, 109>>
S_noop == <<110, 111, 111, 112>>
S_abc == <<97, 98, 99>>
S_45 == <<52, 53>>
K_foo == <<102, 111, 111>>
K_detail == <<100, 101, 116, 97, 105, 108>>
\* "here you go: not json"
NOT_JSON ==
    <<104, 101, 114, 101, 32, 121, 111, 117, 32, 103, 111, 58, 32, 110, 111, 116, 32,
      106, 115, 111, 110>>
Padded(s) == <<32>> \o s \o <<32>>

FinalOf(title, summary, findings, next_actions) ==
    JDict(<<KV(K_action, JStr(S_final)), KV(K_title, title), KV(K_summary, summary),
            KV(K_findings, findings), KV(K_next_actions, next_actions)>>)

Steps(k) == JList([i \in 1..k |-> JStr(KO_NA)])

F_good == FinalOf(JStr(KO_GA), JStr(KO_NA), JList(<<JStr(KO_DA)>>), Steps(3))

FinalEnvelopes ==
    { F_good,
      FinalOf(JStr(KO_GA), JStr(KO_NA), JList(<<>>), Steps(5)),
      \* Han text in a value, in a nested value, in a key
      FinalOf(JStr(HAN_TEXT), JStr(KO_NA), JList(<<JStr(KO_DA)>>), Steps(3)),
      FinalOf(JStr(KO_GA), JStr(KO_NA), JList(<<JStr(KO_DA), JStr(HAN_TEXT)>>), Steps(3)),
      Put(F_good, K_detail, JDict(<<KV(K_foo, JList(<<JStr(HAN_TEXT), JInt(1)>>))>>)),
      Put(F_good, HAN_TEXT, JStr(KO_GA)),
      Put(F_good, K_detail, JDict(<<KV(HAN_TEXT, JInt(1))>>)),
      \* not the shape of a final envelope
      JDict(<<KV(K_action, JStr(S_final))>>),
      JDict(<<KV(K_action, JStr(S_final)), KV(K_title, JStr(HAN_TEXT))>>),
      FinalOf(JStr(KO_GA), JStr(KO_NA), JList(<<JStr(KO_DA)>>), Steps(2)),
      FinalOf(JStr(KO_GA), JStr(KO_NA), JList(<<JStr(KO_DA)>>), Steps(6)),
      FinalOf(JStr(KO_GA), JStr(KO_NA), JStr(KO_DA), Steps(3)),
      FinalOf(JStr(KO_GA), JInt(1), JList(<<JInt(1)>>), Steps(3)) }

OtherObjects ==
    { JDict(<<>>),
      JDict(<<KV(K_action, JStr(S_noop))>>),
      JDict(<<KV(K_title, JStr(KO_GA))>>),
      JDict(<<KV(K_action, JNull)>>),
      JDict(<<KV(K_action, JStr(HAN_TEXT))>>) }

CallOf(tool, args) ==
    JDict(<<KV(K_action, JStr(S_tool_call)), KV(K_tool, tool), KV(K_args, args)>>)

ClusterValues ==
    {JNull, JStr(<<>>), JStr(<<32>>), JStr(NAME_C2), JStr(Padded(NAME_C2)), JInt(7)}
NamespaceValues ==
    {JNull, JStr(<<>>), JStr(<<32>>), JStr(S_null), JStr(NAME_N2), JStr(Padded(NAME_N2)),
     JInt(7)}
WindowValues ==
    {JNull, JInt(60), JInt(1), JInt(99999), JStr(S_abc), JStr(S_45), JFloat(75)}
StatusValues ==
    {JNull, JStr(<<>>), JStr(<<32>>), JStr(S_info), JStr(Padded(S_info)), JInt(7)}
LimitValues == {JNull, JInt(5), JInt(0), JInt(100), JStr(S_abc)}
DeltaValues == {JNull, JInt(0), JInt(50), JStr(S_abc)}
RatioValues == {JNull, JFloat(5), JFloat(30), JFloat(5000), JInt(3), JStr(S_abc)}

WithCluster(k, v) == JDict(<<KV(K_cluster, JStr(NAME_C2)), KV(k, v)>>)

ExplicitArgs ==
    JDict(<<KV(K_cluster, JStr(NAME_C2)), KV(K_namespace, JStr(NAME_N2)),
            KV(K_window_minutes, JInt(60)), KV(K_status, JStr(S_info)),
            KV(K_limit, JInt(5))>>)

CurrentArgs ==
    {JDict(<<>>), ExplicitArgs,
     JDict(<<KV(K_status, JInt(7))>>),
     WithCluster(K_foo, JInt(1)),
     WithCluster(K_min_delta, JInt(50))}
    \cup {JDict(<<KV(K_cluster, v)>>) : v \in ClusterValues}
    \cup {WithCluster(K_namespace, v) : v \in NamespaceValues}
    \cup {WithCluster(K_window_minutes, v) : v \in WindowValues}
    \cup {WithCluster(K_status, v) : v \in StatusValues}
    \cup {WithCluster(K_limit, v) : v \in LimitValues}

IncreasingArgs ==
    {JDict(<<>>), ExplicitArgs}
    \cup {WithCluster(K_min_delta, v) : v \in DeltaValues}
    \cup {WithCluster(K_min_ratio, v) : v \in RatioValues}

ToolCallObjects ==
    {CallOf(JStr(S_current_error_services), a) : a \in CurrentArgs}
    \cup {CallOf(JStr(S_increasing_error_services), a) : a \in IncreasingArgs}
    \cup {CallOf(JStr(S_rm), a) : a \in {JDict(<<>>), ExplicitArgs}}
    \cup {CallOf(JNull, ExplicitArgs),
          \* args missing, null, or no mapping
          JDict(<<KV(K_action, JStr(S_tool_call)),
                  KV(K_tool, JStr(S_current_error_services))>>),
          CallOf(JStr(S_current_error_services), JNull),
          CallOf(JStr(S_current_error_services), JList(<<JInt(1)>>)),
          CallOf(JStr(S_current_error_services), JStr(NAME_C2)),
          \* Han text in an argument
          CallOf(JStr(S_current_error_services), JDict(<<KV(K_cluster, JStr(HAN_TEXT))>>))}

JsonObjects == FinalEnvelopes \cup OtherObjects \cup ToolCallObjects

\* the serialisations of the objects, as json.dumps writes them (ascii FALSE)
\* or with the non-ASCII characters escaped (ascii TRUE)
Serialised == {<<Dumps(o, a), o>> : o \in JsonObjects, a \in BOOLEAN}

\* objects with brace characters inside a string value: "}", "{", "{x}"
BraceObjects ==
    { Put(F_good, K_detail, JStr(<<RBRACE>>)),
      Put(F_good, K_detail, JStr(<<LBRACE>>)),
      Put(F_good, K_detail, JStr(<<LBRACE, 120, RBRACE>>)) }

\* every text json.loads accepts here, with the object it parses to
Parseable == Serialised \cup {<<Dumps(o, FALSE), o>> : o \in BraceObjects}

\* json.loads(candidate): [exc, v]
json_loads(candidate) ==
    IF \E p \in Parseable : p[1] = candidate
    THEN [exc |-> "none", v |-> (CHOOSE p \in Parseable : p[1] = candidate)[2]]
    ELSE [exc |-> "JSONDecodeError", v |-> JNull]

ModelReplies ==
    \* a JSON object alone, as written or with non-ASCII characters escaped
    {p[1] : p \in Serialised}
    \* commentary around the object
    \cup {NOT_JSON \o <<58, 32>> \o Dumps(o, FALSE) \o <<32>> \o NOT_JSON :
            o \in {F_good, CallOf(JStr(S_current_error_services), ExplicitArgs)}}
    \cup {HAN_TEXT \o <<32>> \o Dumps(o, FALSE) :
            o \in {F_good, CallOf(JStr(S_current_error_services), ExplicitArgs),
                   JDict(<<KV(K_action, JStr(S_noop))>>)}}
    \* no object
    \cup {<<>>, NOT_JSON, HAN_TEXT, <<LBRACE>>, <<LBRACE>> \o NOT_JSON \o <<RBRACE>>}

-----------------------------------------------------------------------------
(* JSON extraction *)

\* text.find("{") as the place of the last opening brace
rfind_lbrace(text) ==
    IF \E i \in 1..Len(text) : text[i] = LBRACE
    THEN CHOOSE i \in 1..Len(text) :
            text[i] = LBRACE /\ \A j \in (i + 1)..Len(text) : text[j] # LBRACE
    ELSE 0

\* text.find("{"), 1-based; 0 when there is none
find_lbrace(text) ==
    IF \E i \in 1..Len(text) : text[i] = LBRACE
    THEN CHOOSE i \in 1..Len(text) :
            text[i] = LBRACE /\ \A j \in 1..(i - 1) : text[j] # LBRACE
    ELSE 0

\* depth after the character at index i, counted from start (lines 83-89)
depth_at(text, start, i) ==
    Cardinality({j \in start..i : text[j] = LBRACE})
    - Cardinality({j \in start..i : text[j] = RBRACE})

\* the index at which the loop of lines 84-95 stops: the first closing brace
\* that brings the depth back to 0; 0 when the loop runs to the end of the text
closing_index(text, start) ==
    LET closing == {i \in start..Len(text) :
                      text[i] = RBRACE /\ depth_at(text, start, i) = 0}
    IN  IF closing = {} THEN 0
        ELSE CHOOSE i \in closing : \A j \in closing : i <= j

extract_first_json_object(text) ==
    IF text = <<>> THEN JNull
    ELSE LET start == find_lbrace(text)
         IN  IF start = 0 THEN JNull
             ELSE LET stop == closing_index(text, start)
                  IN  IF stop = 0 THEN JNull
                      ELSE LET parsed == json_loads(SubSeq(text, start, stop))
                           IN  IF parsed.exc = "none" THEN parsed.v ELSE JNull

\* a reply of llm_chat with what run_agent reads off it: the test of line 309
\* and the object of line 324
Read(text) ==
    [text |-> text, han |-> contains_cjk(text), obj |-> extract_first_json_object(text)]

Replies(texts) == {Read(text) : text \in texts}

-----------------------------------------------------------------------------
(* str(x) and repr(x) of Python, for the f-string of line 425 *)

RECURSIVE py_repr(_)
py_repr(x) ==
    CASE x.t = "null" -> <<78, 111, 110, 101>>
      [] x.t = "bool" -> IF x.n = 1 THEN <<84, 114, 117, 101>> ELSE <<70, 97, 108, 115, 101>>
      [] x.t = "int" -> IntText(x.n)
      [] x.t = "float" -> FloatText(x.n)
      [] x.t = "str" -> <<39>> \o x.s \o <<39>>
      [] x.t = "list" ->
            <<91>> \o Join([i \in 1..Len(x.items) |-> py_repr(x.items[i])], <<44, 32>>)
            \o <<93>>
      [] x.t = "kv" -> <<39>> \o x.s \o <<39, 58, 32>> \o py_repr(x.items[1])
      [] x.t = "dict" ->
            <<LBRACE>>
            \o Join([i \in 1..Len(x.items) |-> py_repr(x.items[i])], <<44, 32>>)
            \o <<RBRACE>>

py_str(x) == IF x.t = "str" THEN x.s ELSE py_repr(x)

-----------------------------------------------------------------------------
(* compact_tool_result, lines 258-275 *)

TOP_ROWS == 5
SAMPLE_MAX == 220

\* "service", "count", "previous", "current", "delta", "ratio"
ROW_KEYS ==
    << <<115, 101, 114, 118, 105, 99, 101>>, <<99, 111, 117, 110, 116>>,
       <<112, 114, 101, 118, 105, 111, 117, 115>>, <<99, 117, 114, 114, 101, 110, 116>>,
       <<100, 101, 108, 116, 97>>, <<114, 97, 116, 105, 111>> >>
K_samples == <<115, 97, 109, 112, 108, 101, 115>>
K_sample == <<115, 97, 109, 112, 108, 101>>
K_services == <<115, 101, 114, 118, 105, 99, 101, 115>>
K_window == <<119, 105, 110, 100, 111, 119>>
K_comparison == <<99, 111, 109, 112, 97, 114, 105, 115, 111, 110>>
K_services_total == <<115, 101, 114, 118, 105, 99, 101, 115, 95, 116, 111, 116, 97, 108>>
K_services_top5 == <<115, 101, 114, 118, 105, 99, 101, 115, 95, 116, 111, 112, 53>>

\* the slice s[:n]
Prefix(s, n) == SubSeq(s, 1, Min(n, Len(s)))

\* `x or []`
OrEmptyList(x) == IF truthy(x) THEN x ELSE JList(<<>>)

\* a row that keeps the whole first sample
compact_row_untruncated(s) ==
    LET row == JDict([i \in 1..Len(ROW_KEYS) |-> KV(ROW_KEYS[i], Get(s, ROW_KEYS[i]))])
        samples == OrEmptyList(Get(s, K_samples))
    IN  IF truthy(samples)
        THEN Put(row, K_sample, JStr(py_str(samples.items[1])))
        ELSE row

\* lines 262-267: one row of the output
compact_row(s) ==
    LET row == JDict([i \in 1..Len(ROW_KEYS) |-> KV(ROW_KEYS[i], Get(s, ROW_KEYS[i]))])
        samples == OrEmptyList(Get(s, K_samples))
    IN  IF truthy(samples)
        THEN Put(row, K_sample, JStr(Prefix(py_str(samples.items[1]), SAMPLE_MAX)))
        ELSE row

compact_tool_result(tool, raw) ==
    LET services == OrEmptyList(Get(raw, K_services))
        top == Prefix(services.items, TOP_ROWS)
    IN  JDict(<<KV(K_tool, tool),
                KV(K_summary, Get(raw, K_summary)),
                KV(K_window, IF truthy(Get(raw, K_window)) THEN Get(raw, K_window)
                             ELSE Get(raw, K_comparison)),
                KV(K_services_total, JInt(Len(services.items))),
                KV(K_services_top5, JList([i \in 1..Len(top) |-> compact_row(top[i])]))>>)

-----------------------------------------------------------------------------
(* The diagnostic envelopes of run_agent *)

\* lines 327-337
parse_failure_final ==
    FinalOf(JStr(PARSE_TITLE), JStr(PARSE_SUMMARY), JList(<<>>),
            JList([i \in 1..3 |-> JStr(PARSE_NEXT_ACTIONS[i])]))

\* a diagnostic that hands the model's object back as it came
unknown_action_echo(obj) == obj

\* lines 422-432
unknown_action_final(obj) ==
    FinalOf(JStr(UNKNOWN_TITLE),
            JStr(UNKNOWN_SUMMARY \o py_str(Get(obj, K_action))),
            JList(<<obj>>),
            JList([i \in 1..3 |-> JStr(UNKNOWN_NEXT_ACTIONS[i])]))

-----------------------------------------------------------------------------
(* The question's hints (lines 299-302): what the deterministic extractors  *)
(* can return.  hinted_status is never empty.                               *)

HintSets ==
    [cluster : {JNull, JStr(NAME_C1)},
     namespace : {JNull, JStr(NAME_N1)},
     window : {JNull, JInt(30), JInt(3)},
     status : {JStr(S_error), JStr(S_warn)}]

NoHints ==
    [cluster |-> JNull, namespace |-> JNull, window |-> JNull, status |-> JStr(S_error)]
AllHints ==
    [cluster |-> JStr(NAME_C1), namespace |-> JStr(NAME_N1), window |-> JInt(30),
     status |-> JStr(S_warn)]

\* the questions and the replies the whole loop is followed with
LoopHints == {NoHints, AllHints}

LoopObjects ==
    { F_good,
      FinalOf(JStr(HAN_TEXT), JStr(KO_NA), JList(<<JStr(KO_DA)>>), Steps(3)),
      Put(F_good, HAN_TEXT, JStr(KO_GA)),
      JDict(<<KV(K_action, JStr(S_final))>>),
      JDict(<<>>),
      JDict(<<KV(K_action, JStr(S_noop))>>),
      CallOf(JStr(S_current_error_services), ExplicitArgs),
      CallOf(JStr(S_increasing_error_services), ExplicitArgs),
      CallOf(JStr(S_current_error_services), JDict(<<>>)),
      CallOf(JStr(S_current_error_services), WithCluster(K_window_minutes, JNull)),
      CallOf(JStr(S_current_error_services), WithCluster(K_foo, JInt(1))),
      CallOf(JStr(S_current_error_services), JList(<<JInt(1)>>)) }

LoopReplies ==
    {Dumps(o, a) : o \in LoopObjects, a \in BOOLEAN}
    \cup {HAN_TEXT \o <<32>> \o Dumps(o, FALSE) :
            o \in {F_good, CallOf(JStr(S_current_error_services), ExplicitArgs)}}
    \cup {NOT_JSON, HAN_TEXT}

Msg(role, content) == [role |-> role, content |-> content]

\* lines 396-399: the corrective message quotes the error
InvalidMsg(error_text) == Msg("user", "Tool call is invalid: " \o error_text)
\* a trace entry.  content is the raw reply of an llm_raw entry (line 338);
\* the objects the other entries carry are left out.
Entry(type, retry, detail) ==
    [type |-> type, retry |-> retry, detail |-> detail, content |-> JNull]

\* line 338
RawEntry(text) == [Entry("llm_raw", 0, "") EXCEPT !.content = JStr(text)]

NoRequest == [tool |-> JNull, args |-> JNull]

\* no second invocation of run_agent
NoInvocation == [pc |-> "none"]

\* no direct call of a pure function
NoProbe ==
    [op |-> "none", pre |-> <<>>, mid |-> JNull, suf |-> <<>>, call |-> JNull,
     out |-> JNull, done |-> FALSE]

\* lines 288-292
SeedMessages ==
    <<Msg("system", "LANG_SPEC"), Msg("system", "TOOL_SPEC"), Msg("user", "question")>>

\* lines 288-305: the first llm_chat call is in progress
Init ==
    /\ pc = "model"
    /\ hints \in LoopHints
    /\ messages = SeedMessages
    /\ tool_calls = 0
    /\ lang_retry = 0
    /\ raw_retry = 0
    /\ trace = <<>>
    /\ result = JNull
    /\ error = "none"
    /\ llm_calls = 1
    /\ tool_runs = 0
    /\ proposed = JNull
    /\ request = NoRequest
    /\ followed = MaxModelCalls
    /\ peer = NoInvocation
    /\ running = 1
    /\ probe = NoProbe

-----------------------------------------------------------------------------
(* Steps of run_agent.  In pc = "model" a call of llm_chat is in progress   *)
(* (line 305 or 321); an action that takes its reply runs the loop body up  *)
(* to the next external call, the return or the raise.  In pc = "tool" the  *)
(* request of run_tool is in flight (line 407).                             *)

\* llm_chat returns reply.text
Replied(reply) ==
    /\ pc = "model"
    /\ followed > 0
    /\ followed' = followed - 1

\* a while condition that lets the raw-text loop run one round further
raw_rejects_once_more(reply) == reply.han /\ raw_retry <= RAW_RETRY_MAX

\* the while condition of line 309
raw_rejects(reply) == reply.han /\ raw_retry < RAW_RETRY_MAX

\* the reply gets past the raw-text retry loop and is parsed (line 324)
Dispatched(reply) == Replied(reply) /\ ~raw_rejects(reply)

\* back to line 305
NextModelCall ==
    /\ llm_calls' = llm_calls + 1
    /\ raw_retry' = 0
    /\ pc' = "model"

Return(final) ==
    /\ pc' = "returned"
    /\ result' = final
    /\ UNCHANGED <<hints, messages, tool_calls, raw_retry, error, llm_calls, tool_runs,
                   proposed, request>>

Raise(exc) ==
    /\ pc' = "raised"
    /\ error' = exc
    /\ UNCHANGED <<hints, messages, lang_retry, raw_retry, trace, result, llm_calls,
                   proposed, request>>

\* llm_chat raises (lines 61-64): the request fails or the answer has no content
LlmFails ==
    /\ pc = "model"
    /\ Raise("LlmFailure")
    /\ UNCHANGED <<tool_calls, tool_runs, followed>>

\* a raw-text loop that numbers its rejections from 0
RawRejectedFromZero(reply) ==
    /\ Replied(reply)
    /\ raw_rejects(reply)
    /\ trace' = Append(trace, Entry("llm_raw_rejected_language", raw_retry, ""))
    /\ messages' = messages \o <<Msg("assistant", "reply"), Msg("user", "raw_language_fix")>>
    /\ llm_calls' = llm_calls + 1
    /\ raw_retry' = raw_retry + 1
    /\ UNCHANGED <<pc, hints, tool_calls, lang_retry, result, error, tool_runs, proposed,
                   request>>

\* lines 309-322
RawRejected(reply) ==
    /\ Replied(reply)
    /\ raw_rejects(reply)
    /\ trace' = Append(trace, Entry("llm_raw_rejected_language", raw_retry + 1, ""))
    /\ messages' = messages \o <<Msg("assistant", "reply"), Msg("user", "raw_language_fix")>>
    /\ llm_calls' = llm_calls + 1
    /\ raw_retry' = raw_retry + 1
    /\ UNCHANGED <<pc, hints, tool_calls, lang_retry, result, error, tool_runs, proposed,
                   request>>

\* a loop that asks the model again when the reply holds no object
ParseFailureAsksAgain(reply) ==
    /\ Dispatched(reply)
    /\ ~truthy(reply.obj)
    /\ trace' = Append(trace, RawEntry(reply.text))
    /\ messages' = messages \o <<Msg("assistant", "reply"), Msg("user", "raw_language_fix")>>
    /\ NextModelCall
    /\ UNCHANGED <<hints, tool_calls, lang_retry, result, error, tool_runs, proposed,
                   request>>

\* lines 326-339
ParseFailure(reply) ==
    /\ Dispatched(reply)
    /\ ~truthy(reply.obj)
    /\ trace' = Append(trace, RawEntry(reply.text))
    /\ Return(parse_failure_final)
    /\ UNCHANGED lang_retry

IsFinal(reply) ==
    /\ Dispatched(reply)
    /\ truthy(reply.obj)
    /\ Get(reply.obj, K_action) = JStr(S_final)

\* lines 343-347, 369-370
FinalCompliant(reply) ==
    /\ IsFinal(reply)
    /\ ~contains_cjk(json_dumps(reply.obj))
    /\ trace' = Append(trace, Entry("final", 0, ""))
    /\ Return(reply.obj)
    /\ UNCHANGED lang_retry

\* the test of line 351
retries_exhausted(n) == n >= MAX_LANG_RETRY

\* a rejection that puts only the corrective message into the conversation
FinalRejectedWithoutEcho(reply) ==
    /\ IsFinal(reply)
    /\ contains_cjk(json_dumps(reply.obj))
    /\ ~retries_exhausted(lang_retry + 1)
    /\ lang_retry' = lang_retry + 1
    /\ trace' = Append(trace, Entry("final_rejected_language", lang_retry + 1, ""))
    /\ messages' = Append(messages, Msg("user", "final_language_fix"))
    /\ NextModelCall
    /\ UNCHANGED <<hints, tool_calls, result, error, tool_runs, proposed, request>>

\* lines 347-349, 356-367
FinalRejected(reply) ==
    /\ IsFinal(reply)
    /\ contains_cjk(json_dumps(reply.obj))
    /\ ~retries_exhausted(lang_retry + 1)
    /\ lang_retry' = lang_retry + 1
    /\ trace' = Append(trace, Entry("final_rejected_language", lang_retry + 1, ""))
    /\ messages' = messages \o <<Msg("assistant", "reply"), Msg("user", "final_language_fix")>>
    /\ NextModelCall
    /\ UNCHANGED <<hints, tool_calls, result, error, tool_runs, proposed, request>>

\* lines 347-354
FinalSanitized(reply) ==
    /\ IsFinal(reply)
    /\ contains_cjk(json_dumps(reply.obj))
    /\ retries_exhausted(lang_retry + 1)
    /\ lang_retry' = lang_retry + 1
    /\ trace' = trace \o <<Entry("final_rejected_language", lang_retry + 1, ""),
                           Entry("final_sanitized", 0, "")>>
    /\ Return(sanitize_korean_only(reply.obj))

IsToolCall(reply) ==
    /\ Dispatched(reply)
    /\ truthy(reply.obj)
    /\ Get(reply.obj, K_action) = JStr(S_tool_call)

\* a ceiling test that passes one call too many
limit_reached_late == tool_calls > MAX_TOOL_CALLS

\* the test of line 373
limit_reached == tool_calls >= MAX_TOOL_CALLS

\* a rejection that still counts the call
ToolCallRejectedCounts(reply) ==
    /\ IsToolCall(reply)
    /\ limit_reached
    /\ messages' = messages \o <<Msg("assistant", "reply"), Msg("user", "limit_reached")>>
    /\ trace' = Append(trace, Entry("tool_call_rejected", 0, "limit_reached"))
    /\ NextModelCall
    /\ tool_calls' = tool_calls + 1
    /\ UNCHANGED <<hints, lang_retry, result, error, tool_runs, proposed, request>>

\* lines 372-377
ToolCallRejected(reply) ==
    /\ IsToolCall(reply)
    /\ limit_reached
    /\ messages' = messages \o <<Msg("assistant", "reply"), Msg("user", "limit_reached")>>
    /\ trace' = Append(trace, Entry("tool_call_rejected", 0, "limit_reached"))
    /\ NextModelCall
    /\ UNCHANGED <<hints, tool_calls, lang_retry, result, error, tool_runs, proposed,
                   request>>

\* lines 380-390 on the object of the reply
Backfill(reply) == hint_backfill(reply.obj, hints)

\* lines 392-393 on the backfilled object
Validated(reply) == validate_and_normalize_call(Backfill(reply).obj)

\* lines 380-390 raise: args is no mapping
BackfillRaises(reply) ==
    /\ IsToolCall(reply)
    /\ ~limit_reached
    /\ Backfill(reply).exc # "none"
    /\ Raise(Backfill(reply).exc)
    /\ UNCHANGED <<tool_calls, tool_runs>>

Backfilled(reply) ==
    /\ IsToolCall(reply)
    /\ ~limit_reached
    /\ Backfill(reply).exc = "none"

\* a loop that gives up on the first invalid call
ToolCallInvalidGivesUp(reply) ==
    /\ Backfilled(reply)
    /\ LET v == Validated(reply)
       IN  /\ v.exc = "ValueError"
           /\ trace' = Append(trace, Entry("tool_call_invalid", 0, v.msg))
    /\ Return(parse_failure_final)
    /\ UNCHANGED lang_retry

\* lines 394-401
ToolCallInvalid(reply) ==
    /\ Backfilled(reply)
    /\ LET v == Validated(reply)
       IN  /\ v.exc = "ValueError"
           /\ trace' = Append(trace, Entry("tool_call_invalid", 0, v.msg))
    /\ messages' = messages \o <<Msg("assistant", "reply"), InvalidMsg(Validated(reply).msg)>>
    /\ NextModelCall
    /\ UNCHANGED <<hints, tool_calls, lang_retry, result, error, tool_runs, proposed,
                   request>>

\* line 393 raises something that is no ValueError
ValidateRaises(reply) ==
    /\ Backfilled(reply)
    /\ LET v == Validated(reply)
       IN  /\ v.exc \notin {"none", "ValueError"}
           /\ Raise(v.exc)
    /\ UNCHANGED <<tool_calls, tool_runs>>

\* lines 403-407: the keyword arguments do not fit the tool
RunToolRaises(reply) ==
    /\ Backfilled(reply)
    /\ LET v == Validated(reply)
       IN  /\ v.exc = "none"
           /\ ~run_tool_accepts(Get(v.call, K_tool), Get(v.call, K_args))
    /\ tool_calls' = tool_calls + 1
    /\ tool_runs' = tool_runs + 1
    /\ Raise("TypeError")

\* lines 403-407: the request to the tool server is sent
ToolCallStart(reply) ==
    /\ Backfilled(reply)
    /\ LET v == Validated(reply)
       IN  /\ v.exc = "none"
           /\ run_tool_accepts(Get(v.call, K_tool), Get(v.call, K_args))
           /\ request' = [tool |-> Get(v.call, K_tool), args |-> Get(v.call, K_args)]
    /\ tool_calls' = tool_calls + 1
    /\ tool_runs' = tool_runs + 1
    /\ proposed' = reply.obj
    /\ pc' = "tool"
    /\ UNCHANGED <<hints, messages, lang_retry, raw_retry, trace, result, error, llm_calls>>

\* the tool result put into the conversation ahead of the call
ToolReturnsResultFirst ==
    /\ pc = "tool"
    /\ trace' = trace \o <<Entry("tool_call", 0, ""), Entry("tool_result", 0, "")>>
    /\ messages' = messages \o <<Msg("user", "tool_result"), Msg("assistant", "call")>>
    /\ NextModelCall
    /\ proposed' = JNull
    /\ request' = NoRequest
    /\ UNCHANGED <<hints, tool_calls, lang_retry, result, error, tool_runs, followed>>

\* lines 407-420: the tool answers
ToolReturns ==
    /\ pc = "tool"
    /\ trace' = trace \o <<Entry("tool_call", 0, ""), Entry("tool_result", 0, "")>>
    /\ messages' = messages \o <<Msg("assistant", "call"), Msg("user", "tool_result")>>
    /\ NextModelCall
    /\ proposed' = JNull
    /\ request' = NoRequest
    /\ UNCHANGED <<hints, tool_calls, lang_retry, result, error, tool_runs, followed>>

\* line 407: the request fails (tools_client.py raise_for_status, timeout)
ToolFails ==
    /\ pc = "tool"
    /\ Raise("ToolFailure")
    /\ UNCHANGED <<tool_calls, tool_runs, followed>>

\* lines 422-434
UnknownAction(reply) ==
    /\ Dispatched(reply)
    /\ truthy(reply.obj)
    /\ Get(reply.obj, K_action) \notin {JStr(S_final), JStr(S_tool_call)}
    /\ trace' = Append(trace, Entry("unknown_action", 0, ""))
    /\ Return(unknown_action_final(reply.obj))
    /\ UNCHANGED lang_retry

\* one step of run_agent when the model answers from the set replies
Step(replies) ==
    \/ LlmFails
    \/ \E reply \in replies : RawRejected(reply)
    \/ \E reply \in replies : ParseFailure(reply)
    \/ \E reply \in replies : FinalCompliant(reply)
    \/ \E reply \in replies : FinalRejected(reply)
    \/ \E reply \in replies : FinalSanitized(reply)
    \/ \E reply \in replies : ToolCallRejected(reply)
    \/ \E reply \in replies : BackfillRaises(reply)
    \/ \E reply \in replies : ToolCallInvalid(reply)
    \/ \E reply \in replies : ValidateRaises(reply)
    \/ \E reply \in replies : RunToolRaises(reply)
    \/ \E reply \in replies : ToolCallStart(reply)
    \/ ToolReturns
    \/ ToolFails
    \/ \E reply \in replies : UnknownAction(reply)

LoopReadings == Replies(LoopReplies)

Next == Step(LoopReadings) /\ UNCHANGED <<peer, running, probe>>

\* one invocation of run_agent, followed for MaxModelCalls replies of the model
Spec == Init /\ [][Next]_vars

-----------------------------------------------------------------------------
(* One turn of the loop under every reply and every question.  A turn       *)
(* starts at line 305 of a fresh invocation, or of one that has used up its *)
(* tool calls, its final-envelope retries less one, or its raw-text         *)
(* retries.                                                                 *)

Twice(pair) == pair \o pair

TurnStarts ==
    { [messages |-> SeedMessages, trace |-> <<>>, tool_calls |-> 0, lang_retry |-> 0,
       raw_retry |-> 0, llm_calls |-> 1],
      [messages |-> SeedMessages
                    \o Twice(<<Msg("assistant", "call"), Msg("user", "tool_result")>>),
       trace |-> Twice(<<Entry("tool_call", 0, ""), Entry("tool_result", 0, "")>>),
       tool_calls |-> MAX_TOOL_CALLS, lang_retry |-> 0, raw_retry |-> 0, llm_calls |-> 3],
      [messages |-> SeedMessages
                    \o Twice(<<Msg("assistant", "reply"), Msg("user", "final_language_fix")>>),
       trace |-> <<Entry("final_rejected_language", 1, ""),
                   Entry("final_rejected_language", 2, "")>>,
       tool_calls |-> 0, lang_retry |-> 2, raw_retry |-> 0, llm_calls |-> 3],
      [messages |-> SeedMessages
                    \o Twice(<<Msg("assistant", "reply"), Msg("user", "raw_language_fix")>>),
       trace |-> <<Entry("llm_raw_rejected_language", 1, ""),
                   Entry("llm_raw_rejected_language", 2, "")>>,
       tool_calls |-> 0, lang_retry |-> 0, raw_retry |-> RAW_RETRY_MAX, llm_calls |-> 3] }

InitTurn ==
    /\ pc = "model"
    /\ hints \in HintSets
    /\ \E start \in TurnStarts :
          /\ messages = start.messages
          /\ trace = start.trace
          /\ tool_calls = start.tool_calls
          /\ tool_runs = start.tool_calls
          /\ lang_retry = start.lang_retry
          /\ raw_retry = start.raw_retry
          /\ llm_calls = start.llm_calls
    /\ result = JNull
    /\ error = "none"
    /\ proposed = JNull
    /\ request = NoRequest
    /\ followed = MaxTurnReplies
    /\ peer = NoInvocation
    /\ running = 1
    /\ probe = NoProbe

ModelReadings == Replies(ModelReplies)

NextTurn == Step(ModelReadings) /\ UNCHANGED <<peer, running, probe>>

SpecTurn == InitTurn /\ [][NextTurn]_vars

-----------------------------------------------------------------------------
(* Two invocations of run_agent at once (agent_server.py serves each        *)
(* request on a thread of its own).  Every name run_agent assigns is a      *)
(* local of the invocation: the variables above are the locals of the       *)
(* invocation that runs, peer holds the locals of the one that waits.  The  *)
(* configuration is only read.                                              *)

Locals ==
    [pc |-> pc, hints |-> hints, messages |-> messages, tool_calls |-> tool_calls,
     lang_retry |-> lang_retry, raw_retry |-> raw_retry, trace |-> trace,
     result |-> result, error |-> error, llm_calls |-> llm_calls,
     tool_runs |-> tool_runs, proposed |-> proposed, request |-> request,
     followed |-> followed]

\* the invocation inv goes on from where it stopped
Resumed(inv) ==
    /\ pc' = inv.pc
    /\ hints' = inv.hints
    /\ messages' = inv.messages
    /\ tool_calls' = inv.tool_calls
    /\ lang_retry' = inv.lang_retry
    /\ raw_retry' = inv.raw_retry
    /\ trace' = inv.trace
    /\ result' = inv.result
    /\ error' = inv.error
    /\ llm_calls' = inv.llm_calls
    /\ tool_runs' = inv.tool_runs
    /\ proposed' = inv.proposed
    /\ request' = inv.request
    /\ followed' = inv.followed

\* the two invocations with one tool-call counter between them
SwapSharingCounter ==
    /\ peer' = Locals
    /\ Resumed([peer EXCEPT !.tool_calls = tool_calls])
    /\ running' = 3 - running
    /\ UNCHANGED probe

\* the thread of the other invocation is scheduled
Swap ==
    /\ peer' = Locals
    /\ Resumed(peer)
    /\ running' = 3 - running
    /\ UNCHANGED probe

\* the replies the two invocations are followed with
PairReplies ==
    {Dumps(o, TRUE) : o \in LoopObjects} \cup {NOT_JSON, HAN_TEXT}

PairReadings == Replies(PairReplies)

\* one turn of each invocation, from any turn start, under either question
PairStarts ==
    { [pc |-> "model", hints |-> h, messages |-> start.messages,
       tool_calls |-> start.tool_calls, lang_retry |-> start.lang_retry,
       raw_retry |-> start.raw_retry, trace |-> start.trace, result |-> JNull,
       error |-> "none", llm_calls |-> start.llm_calls,
       tool_runs |-> start.tool_calls, proposed |-> JNull, request |-> NoRequest,
       followed |-> MaxTurnReplies] :
        h \in LoopHints, start \in TurnStarts }

InitPair ==
    /\ \E inv \in PairStarts :
          /\ pc = inv.pc
          /\ hints = inv.hints
          /\ messages = inv.messages
          /\ tool_calls = inv.tool_calls
          /\ lang_retry = inv.lang_retry
          /\ raw_retry = inv.raw_retry
          /\ trace = inv.trace
          /\ result = inv.result
          /\ error = inv.error
          /\ llm_calls = inv.llm_calls
          /\ tool_runs = inv.tool_runs
          /\ proposed = inv.proposed
          /\ request = inv.request
          /\ followed = inv.followed
    /\ peer \in PairStarts
    /\ running = 1
    /\ probe = NoProbe

NextPair ==
    \/ Swap
    \/ Step(PairReadings) /\ UNCHANGED <<peer, running, probe>>

SpecPair == InitPair /\ [][NextPair]_vars

-----------------------------------------------------------------------------
(* Direct calls of the pure functions: extract_first_json_object on a text  *)
(* prefix + object + suffix, validate_and_normalize_call on a call.         *)

\* nothing, commentary, a markdown fence "```json\n", "{} ", "{a} ", "} ", "{ "
ProbePrefixes ==
    { <<>>, NOT_JSON \o <<58, 32>>, <<96, 96, 96, 106, 115, 111, 110, 10>>,
      <<LBRACE, RBRACE, 32>>, <<LBRACE, 97, RBRACE, 32>>, <<RBRACE, 32>>,
      <<LBRACE, 32>> }

\* nothing, commentary, the end of a markdown fence "\n```", " {}", " }", " {"
ProbeSuffixes ==
    { <<>>, <<32>> \o NOT_JSON, <<10, 96, 96, 96>>, <<32, LBRACE, RBRACE>>,
      <<32, RBRACE>>, <<32, LBRACE>> }

\* the object between them; JNull for no object
ProbeObjects ==
    {JNull, F_good, CallOf(JStr(S_current_error_services), ExplicitArgs)}
    \cup BraceObjects

ProbeText(p) ==
    p.pre \o (IF p.mid = JNull THEN <<>> ELSE Dumps(p.mid, FALSE)) \o p.suf

\* extract_first_json_object(text) is called and returns
Extract ==
    /\ probe.op = "extract"
    /\ ~probe.done
    /\ probe' = [probe EXCEPT !.out = extract_first_json_object(ProbeText(probe)),
                              !.done = TRUE]
    /\ UNCHANGED <<locals, peer, running>>

\* calls in which any subset of the checks fails: the action, the tool, and
\* each of cluster, status, namespace and window_minutes either left out or
\* given a value its check refuses (cluster: left out is what it refuses)
OrderArgs ==
    { JDict(c \o s \o n \o w) :
        c \in {<<>>, <<KV(K_cluster, JStr(NAME_C2))>>},
        s \in {<<>>, <<KV(K_status, JInt(7))>>},
        n \in {<<>>, <<KV(K_namespace, JInt(7))>>},
        w \in {<<>>, <<KV(K_window_minutes, JStr(S_abc))>>} }

OrderCalls ==
    { Put(CallOf(JStr(tool), args), K_action, JStr(action)) :
        action \in {S_tool_call, S_final},
        tool \in {S_current_error_services, S_increasing_error_services, S_rm},
        args \in OrderArgs }

\* validate_and_normalize_call(call) is called and returns or raises
Validate ==
    /\ probe.op = "validate"
    /\ ~probe.done
    /\ probe' = [probe EXCEPT !.out = validate_and_normalize_call(probe.call),
                              !.done = TRUE]
    /\ UNCHANGED <<locals, peer, running>>

\* sanitize_korean_only(obj) is called and returns
Sanitize ==
    /\ probe.op = "sanitize"
    /\ ~probe.done
    /\ probe' = [probe EXCEPT !.out = sanitize_korean_only(probe.call), !.done = TRUE]
    /\ UNCHANGED <<locals, peer, running>>

\* clamp_int(v, lo, hi) is called on the arguments <<v, lo, hi>> and returns
Clamp ==
    /\ probe.op = "clamp"
    /\ ~probe.done
    /\ probe' = [probe EXCEPT
                   !.out = JInt(clamp_int(probe.call.items[1].n, probe.call.items[2].n,
                                          probe.call.items[3].n)),
                   !.done = TRUE]
    /\ UNCHANGED <<locals, peer, running>>

\* What a tool answers (tools_client.py, r.json()): a summary, a window or a
\* comparison, and the rows, each with its service, its counts and, or not,
\* its samples.

\* the samples of a row: none, null, an empty list, one short sample, two
\* samples, a sample of SAMPLE_MAX + 1 characters, a sample that is a number
SampleLists ==
    << <<>>,
       <<KV(K_samples, JNull)>>,
       <<KV(K_samples, JList(<<>>))>>,
       <<KV(K_samples, JList(<<JStr(S_abc)>>))>>,
       <<KV(K_samples, JList(<<JStr(S_45), JStr(S_abc)>>))>>,
       <<KV(K_samples, JList(<<JStr([i \in 1..(SAMPLE_MAX + 1) |-> 97])>>))>>,
       <<KV(K_samples, JList(<<JInt(7)>>))>> >>

\* the i-th row of an answer: service "s<i>", count i, the samples of kind k
ToolRow(i, k) ==
    JDict(<<KV(ROW_KEYS[1], JStr(<<115, 48 + i>>)), KV(ROW_KEYS[2], JInt(i))>>
          \o SampleLists[((i + k) % Len(SampleLists)) + 1])

\* answers of 0 to TOP_ROWS + 2 rows, and answers without rows
ToolResults ==
    { JDict(<<KV(K_summary, JStr(S_info)), KV(w, JStr(S_45)),
              KV(K_services, JList([i \in 1..n |-> ToolRow(i, k)]))>>) :
        n \in 0..(TOP_ROWS + 2), k \in 1..Len(SampleLists), w \in {K_window, K_comparison} }
    \cup { JDict(<<KV(K_summary, JStr(S_info))>>),
           JDict(<<KV(K_summary, JStr(S_info)), KV(K_services, JNull)>>) }

\* compact_tool_result(tool, result) is called and returns
Compact ==
    /\ probe.op = "compact"
    /\ ~probe.done
    /\ probe' = [probe EXCEPT
                   !.out = compact_tool_result(JStr(S_current_error_services), probe.call),
                   !.done = TRUE]
    /\ UNCHANGED <<locals, peer, running>>

\* no invocation of run_agent is in progress
InitPure ==
    /\ pc = "idle"
    /\ hints = NoHints
    /\ messages = <<>>
    /\ tool_calls = 0
    /\ lang_retry = 0
    /\ raw_retry = 0
    /\ trace = <<>>
    /\ result = JNull
    /\ error = "none"
    /\ llm_calls = 0
    /\ tool_runs = 0
    /\ proposed = JNull
    /\ request = NoRequest
    /\ followed = 0
    /\ peer = NoInvocation
    /\ running = 1
    /\ \/ \E pre \in ProbePrefixes, mid \in ProbeObjects, suf \in ProbeSuffixes :
             probe = [NoProbe EXCEPT !.op = "extract", !.pre = pre, !.mid = mid,
                                     !.suf = suf]
       \/ \E call \in OrderCalls \cup ToolCallObjects :
             probe = [NoProbe EXCEPT !.op = "validate", !.call = call]
       \/ \E obj \in FinalEnvelopes \cup OtherObjects :
             probe = [NoProbe EXCEPT !.op = "sanitize", !.call = obj]
       \/ \E answer \in ToolResults :
             probe = [NoProbe EXCEPT !.op = "compact", !.call = answer]
       \* small bounds with every value around them, and the configured bounds
       \/ \E lo \in 0..4, hi \in 0..4, v \in -2..6 :
             /\ lo <= hi
             /\ probe = [NoProbe EXCEPT !.op = "clamp",
                                        !.call = JList(<<JInt(v), JInt(lo), JInt(hi)>>)]
       \/ \E b \in {<<WINDOW_MIN, WINDOW_MAX>>, <<LIMIT_MIN, LIMIT_MAX>>}, d \in -2..2,
             side \in 1..2 :
             probe = [NoProbe EXCEPT !.op = "clamp",
                                     !.call = JList(<<JInt(b[side] + d), JInt(b[1]),
                                                      JInt(b[2])>>)]

NextPure == Extract \/ Validate \/ Sanitize \/ Clamp \/ Compact

SpecPure == InitPure /\ [][NextPure]_vars

-----------------------------------------------------------------------------
(* Properties of run_agent *)

Returned == pc = "returned"

LastEntry == IF trace = <<>> THEN Entry("", 0, "") ELSE trace[Len(trace)]

HasEntry(type) == \E i \in 1..Len(trace) : trace[i].type = type

\* the sanitizing fallback of lines 351-354 produced the returned envelope
Sanitized == Returned /\ LastEntry.type = "final_sanitized"

CountMessages(content) ==
    Cardinality({i \in 1..Len(messages) : messages[i].content = content})

\* C1: one invocation of run_agent calls run_tool at most MAX_TOOL_CALLS
\* times, whatever the model replies and however rejected, invalid and valid
\* tool_calls are mixed.
C1_ToolCallCeiling == tool_runs <= MAX_TOOL_CALLS

\* the ceiling is reached, and the run has seen a rejected and an invalid call
C1_CeilingReached ==
    /\ tool_runs = MAX_TOOL_CALLS
    /\ HasEntry("tool_call_rejected")
    /\ HasEntry("tool_call_invalid")
    /\ HasEntry("tool_result")

\* C2: every path back to the model call is gated by a counter: a step that
\* issues another call of llm_chat has run a tool (tool-call counter), or has
\* counted a final-envelope rejection, or has counted a raw-text rejection,
\* so that no run iterates without bound.
C2_ModelCallsGated ==
    [][llm_calls' > llm_calls =>
          \/ pc = "tool"
          \/ lang_retry' > lang_retry
          \/ raw_retry' > raw_retry]_vars

\* C3: run_agent never raises because of what the model replied; an
\* exception leaves it only when an external call itself fails.
C3_RaisesOnlyForExternalFailure ==
    pc = "raised" => error \in {"ToolFailure", "LlmFailure"}

\* C4: every envelope run_agent returns has action "final", on each of the
\* four return paths.
C4_ReturnsFinal ==
    Returned => result.t = "dict" /\ Get(result, K_action) = JStr(S_final)

\* the unknown-action diagnostic is returned for an object whose action is
\* some other string
C4_UnknownActionReturned ==
    /\ Returned
    /\ LastEntry.type = "unknown_action"
    /\ Get(result, K_findings) = JList(<<JDict(<<KV(K_action, JStr(S_noop))>>)>>)

\* a sequence of strings of lo to hi elements
IsStrings(x, lo, hi) ==
    /\ x.t = "list"
    /\ Len(x.items) >= lo
    /\ Len(x.items) <= hi
    /\ \A i \in 1..Len(x.items) : x.items[i].t = "str"

\* the shape of a final envelope (prompts.py, lines 50-64)
WellFormedFinal(e) ==
    /\ e.t = "dict"
    /\ Get(e, K_action) = JStr(S_final)
    /\ HasKey(e, K_title)
    /\ HasKey(e, K_summary)
    /\ HasKey(e, K_findings)
    /\ IsStrings(Get(e, K_findings), 0, Len(Get(e, K_findings).items))
    /\ HasKey(e, K_next_actions)
    /\ IsStrings(Get(e, K_next_actions), 3, 5)

\* C5: whenever run_agent returns, the envelope is a well-formed final: it
\* has title and summary, findings is a sequence of strings and next_actions
\* a sequence of 3 to 5 strings.
C5_ReturnsWellFormedFinal == Returned => WellFormedFinal(result)

\* C6: once the sanitizing fallback has fired, the serialisation of the
\* returned envelope passes contains_cjk: no Han text in values or in keys.
C6_SanitizedHasNoHan == Sanitized => ~contains_cjk(json_dumps(result))

\* C7: the retry counters stay within their ceilings: a raw-text rejection
\* is numbered 1..RAW_RETRY_MAX within its turn, a final-envelope rejection
\* 1..MAX_LANG_RETRY within the invocation.
C7_RetryCeilings ==
    /\ raw_retry \in 0..RAW_RETRY_MAX
    /\ lang_retry \in 0..MAX_LANG_RETRY
    /\ \A i \in 1..Len(trace) :
          /\ trace[i].type = "llm_raw_rejected_language"
                => trace[i].retry \in 1..RAW_RETRY_MAX
          /\ trace[i].type = "final_rejected_language"
                => trace[i].retry \in 1..MAX_LANG_RETRY

\* both ceilings are reached in one invocation
C7_BothCeilingsReached ==
    /\ \E i \in 1..Len(trace) :
          trace[i] = Entry("llm_raw_rejected_language", RAW_RETRY_MAX, "")
    /\ \E i \in 1..Len(trace) :
          trace[i] = Entry("final_rejected_language", MAX_LANG_RETRY, "")

\* C8: the sanitizing fallback is applied only after MAX_LANG_RETRY
\* corrective re-prompts for the final envelope have been issued.
C8_SanitizesAfterCeilingOfReprompts ==
    Sanitized => CountMessages("final_language_fix") = MAX_LANG_RETRY

\* the fields the question's hints are about
HintedFields == {K_cluster, K_namespace, K_window_minutes, K_status}

HintOf(k) ==
    CASE k = K_cluster -> hints.cluster
      [] k = K_namespace -> hints.namespace
      [] k = K_window_minutes -> hints.window
      [] k = K_status -> hints.status

\* the arguments of the tool_call as the model proposed it
ProposedArgs ==
    IF proposed.t = "dict" /\ Get(proposed, K_args).t = "dict"
    THEN Get(proposed, K_args) ELSE JDict(<<>>)

\* absent, null, empty or whitespace-only
IsBlank(v) == v.t = "null" \/ (v.t = "str" /\ strip(v.s) = <<>>)

\* an explicit valid value of field k: a name, or a number of minutes
IsExplicit(k, v) ==
    IF k = K_window_minutes
    THEN v.t \in {"int", "float"} \/ (v.t = "str" /\ py_int(v).exc = "none")
    ELSE v.t = "str" /\ strip(v.s) # <<>> /\ (k = K_namespace => strip(v.s) # S_null)

\* the value of field k after trimming / clamping
Normal(k, v) ==
    IF k = K_window_minutes
    THEN JInt(clamp_int(py_int(v).v, WINDOW_MIN, WINDOW_MAX))
    ELSE JStr(strip(v.s))

\* C9: the hints never override the model's explicit choice: a tool_call
\* that carries an explicit valid cluster, namespace, window_minutes or
\* status is executed with that value (trimmed / clamped).
C9_HintsNeverOverride ==
    pc = "tool" =>
        \A k \in HintedFields :
            IsExplicit(k, Get(ProposedArgs, k))
                => Get(request.args, k) = Normal(k, Get(ProposedArgs, k))

\* C10: the hints always fill gaps: where a hint exists and the tool_call
\* leaves the field absent or blank, the tool is executed with the hint
\* (trimmed / clamped).
C10_HintsAlwaysFill ==
    pc = "tool" =>
        \A k \in HintedFields :
            truthy(HintOf(k)) /\ IsBlank(Get(ProposedArgs, k))
                => Get(request.args, k) = Normal(k, HintOf(k))

-----------------------------------------------------------------------------
(* The /ask endpoint around run_agent (agent_server.py, lines 32-46), for a *)
(* request that asks for the trace.                                         *)

\* an endpoint that answers 200 whatever happened
ask_always_ok == [status |-> 200, result |-> result, trace |-> trace, detail |-> error]

ask ==
    IF pc = "raised"
    THEN [status |-> 502, result |-> JNull, trace |-> <<>>, detail |-> error]
    ELSE [status |-> IF pc = "returned" THEN 200 ELSE 0,
          result |-> result, trace |-> trace, detail |-> "none"]

-----------------------------------------------------------------------------
(* Properties of single steps of the loop *)

\* the step consumes reply as the answer of llm_chat
Heard(reply) == followed' # followed /\ Step({reply})

\* the reply gets past the raw-text retry loop
Parsed(reply) == ~raw_rejects(reply) /\ Heard(reply)

LastEntryAfter == trace'[Len(trace')]

\* the step neither calls the model again nor a tool
NothingCalled == llm_calls' = llm_calls /\ tool_runs' = tool_runs /\ pc' # "tool"

\* C11: when the reply that gets past the raw-text retries holds no
\* balanced, parseable JSON object, run_agent returns at once the fixed
\* diagnostic final (title "LLM 출력 오류", no findings), calls neither the
\* model nor a tool again, and the last trace entry is the raw reply.
C11_ParseFailureTerminates ==
    [][\A reply \in ModelReadings :
          (reply.obj = JNull /\ Parsed(reply))
            => /\ pc' = "returned"
               /\ Get(result', K_action) = JStr(S_final)
               /\ Get(result', K_title) = JStr(PARSE_TITLE)
               /\ Get(result', K_findings) = JList(<<>>)
               /\ NothingCalled
               /\ Len(trace') = Len(trace) + 1
               /\ LastEntryAfter.type = "llm_raw"
               /\ LastEntryAfter.content = JStr(reply.text)]_vars

\* the diagnostic is returned for a reply of Han text that was let through
\* after the raw-text retries
C11_ParseFailureReturned ==
    /\ Returned
    /\ Get(result, K_title) = JStr(PARSE_TITLE)
    /\ LastEntry.type = "llm_raw"
    /\ LastEntry.content = JStr(HAN_TEXT)
    /\ HasEntry("llm_raw_rejected_language")

\* C12: when the reply parses to an object whose action is neither
\* "tool_call" nor "final" (another value, no action field, or no fields at
\* all), run_agent returns at once the unknown-action diagnostic naming the
\* action and records an unknown_action entry, calling neither the model nor
\* a tool again.
C12_UnknownActionTerminates ==
    [][\A reply \in ModelReadings :
          (/\ reply.obj.t = "dict"
           /\ Get(reply.obj, K_action) \notin {JStr(S_final), JStr(S_tool_call)}
           /\ Parsed(reply))
            => /\ pc' = "returned"
               /\ Get(result', K_title) = JStr(UNKNOWN_TITLE)
               /\ Get(result', K_summary)
                    = JStr(UNKNOWN_SUMMARY \o py_str(Get(reply.obj, K_action)))
               /\ NothingCalled
               /\ LastEntryAfter.type = "unknown_action"]_vars

\* C13: a tool_call that arrives when tool_calls = MAX_TOOL_CALLS is
\* rejected: tool_call_rejected / limit_reached is recorded, the corrective
\* message is appended, the counter stays, no tool runs and the model is
\* called again.
C13_CallAtCeilingRejected ==
    [][\A reply \in LoopReadings :
          (/\ tool_calls = MAX_TOOL_CALLS
           /\ reply.obj.t = "dict"
           /\ Get(reply.obj, K_action) = JStr(S_tool_call)
           /\ Parsed(reply))
            => /\ trace' = Append(trace, Entry("tool_call_rejected", 0, "limit_reached"))
               /\ messages' = messages \o <<Msg("assistant", "reply"),
                                            Msg("user", "limit_reached")>>
               /\ tool_calls' = tool_calls
               /\ tool_runs' = tool_runs
               /\ pc' = "model"
               /\ llm_calls' = llm_calls + 1]_vars

\* three tool_calls in a row: two have run, the third is rejected
C13_ThirdCallRejected ==
    /\ [i \in 1..Len(trace) |-> trace[i].type]
         = <<"tool_call", "tool_result", "tool_call", "tool_result", "tool_call_rejected">>
    /\ tool_runs = MAX_TOOL_CALLS
    /\ tool_calls = MAX_TOOL_CALLS
    /\ pc = "model"

\* C14: when the backfilled tool_call fails validation, the loop goes on and
\* runs no tool: the counter stays, the call and a corrective message with
\* the error text are appended, tool_call_invalid is recorded with the
\* error, and the model is called again; empty args without a cluster hint
\* fail with "cluster must be specified explicitly".
C14_InvalidCallAsksAgain ==
    [][\A reply \in LoopReadings :
          (/\ tool_calls < MAX_TOOL_CALLS
           /\ reply.obj.t = "dict"
           /\ Get(reply.obj, K_action) = JStr(S_tool_call)
           /\ Backfill(reply).exc = "none"
           /\ Validated(reply).exc = "ValueError"
           /\ Parsed(reply))
            => /\ pc' = "model"
               /\ llm_calls' = llm_calls + 1
               /\ tool_calls' = tool_calls
               /\ tool_runs' = tool_runs
               /\ trace' = Append(trace,
                                  Entry("tool_call_invalid", 0, Validated(reply).msg))
               /\ messages' = messages
                     \o <<Msg("assistant", "reply"),
                          Msg("user", "Tool call is invalid: " \o Validated(reply).msg)>>
               /\ (/\ reply.obj = CallOf(JStr(S_current_error_services), JDict(<<>>))
                   /\ ~truthy(hints.cluster))
                     => LastEntryAfter.detail = "cluster must be specified explicitly"]_vars

\* empty args and no cluster hint, after a call that ran
C14_ClusterMissing ==
    /\ pc = "model"
    /\ tool_calls = 1
    /\ tool_runs = 1
    /\ ~truthy(hints.cluster)
    /\ LastEntry = Entry("tool_call_invalid", 0, "cluster must be specified explicitly")
    /\ messages[Len(messages)]
         = Msg("user", "Tool call is invalid: cluster must be specified explicitly")

\* C15: a failure of the tool invocation is not caught: run_agent returns
\* neither envelope nor trace, and /ask answers with HTTP 502 instead of a
\* result.
C15_ToolFailurePropagates ==
    (pc = "raised" /\ error = "ToolFailure")
        => /\ result = JNull
           /\ ask.status = 502
           /\ ask.result = JNull
           /\ ask.trace = <<>>
           /\ ask.detail = "ToolFailure"

\* the second tool invocation fails
C15_SecondToolFails ==
    /\ pc = "raised"
    /\ error = "ToolFailure"
    /\ tool_runs = MAX_TOOL_CALLS
    /\ HasEntry("tool_result")

IsTrimmedName(v) == v.t = "str" /\ v.s # <<>> /\ strip(v.s) = v.s

IsIntIn(v, lo, hi) == v.t = "int" /\ v.n >= lo /\ v.n <= hi

\* C19: every tool invocation uses a whitelisted tool, a non-blank trimmed
\* cluster, a non-blank status, a namespace that is null or a non-blank
\* trimmed string, window_minutes in [WINDOW_MIN, WINDOW_MAX] and limit in
\* [LIMIT_MIN, LIMIT_MAX]; the comparison tool also min_delta >= 1 and
\* min_ratio in [1.0, 100.0].
C19_ExecutedArgsValid ==
    pc = "tool" =>
        LET args == request.args
        IN  /\ request.tool \in {JStr(S_current_error_services),
                                 JStr(S_increasing_error_services)}
            /\ args.t = "dict"
            /\ IsTrimmedName(Get(args, K_cluster))
            /\ Get(args, K_status).t = "str"
            /\ strip(Get(args, K_status).s) # <<>>
            /\ Get(args, K_namespace) = JNull \/ IsTrimmedName(Get(args, K_namespace))
            /\ IsIntIn(Get(args, K_window_minutes), WINDOW_MIN, WINDOW_MAX)
            /\ IsIntIn(Get(args, K_limit), LIMIT_MIN, LIMIT_MAX)
            /\ request.tool = JStr(S_increasing_error_services)
                 => /\ Get(args, K_min_delta).t = "int"
                    /\ Get(args, K_min_delta).n >= 1
                    /\ Get(args, K_min_ratio).t = "float"
                    /\ Get(args, K_min_ratio).n >= 10
                    /\ Get(args, K_min_ratio).n <= 1000

\* a window far above the range is executed as WINDOW_MAX
C19_WindowClampedFromAbove ==
    /\ pc = "tool"
    /\ Get(ProposedArgs, K_window_minutes) = JInt(99999)
    /\ Get(request.args, K_window_minutes) = JInt(WINDOW_MAX)

-----------------------------------------------------------------------------
(* The extractor on prefix + object + suffix *)

\* the places of the character c in text
Places(text, c) == {i \in 1..Len(text) : text[i] = c}

\* opening braces less closing braces among the characters lo..hi of text
Surplus(text, lo, hi) ==
    Cardinality({i \in Places(text, LBRACE) : lo <= i /\ i <= hi})
    - Cardinality({i \in Places(text, RBRACE) : lo <= i /\ i <= hi})

\* text has no unmatched brace
NoUnmatched(text) ==
    /\ Surplus(text, 1, Len(text)) = 0
    /\ \A i \in 1..Len(text) : Surplus(text, 1, i) >= 0

\* text has an opening brace, and the first one is never closed
FirstNeverClosed(text) ==
    /\ Places(text, LBRACE) # {}
    /\ LET first == CHOOSE i \in Places(text, LBRACE) :
                        \A j \in Places(text, LBRACE) : i <= j
       IN  \A k \in first..Len(text) : Surplus(text, first, k) > 0

Extracted == probe.op = "extract" /\ probe.done

\* C17: for every text prefix + balanced_json + suffix whose prefix and suffix
\* have no unmatched brace, extract_first_json_object returns exactly the
\* parsed balanced_json.
C17_ExtractsEmbeddedObject ==
    (Extracted /\ probe.mid # JNull /\ NoUnmatched(probe.pre) /\ NoUnmatched(probe.suf))
        => probe.out = probe.mid

\* C18 as stated: extract_first_json_object returns none for every text with
\* unbalanced braces and for every text with no opening brace.
C18_UnbalancedGivesNone ==
    (Extracted /\ (~NoUnmatched(ProbeText(probe))
                     \/ Places(ProbeText(probe), LBRACE) = {}))
        => probe.out = JNull

\* C18: extract_first_json_object returns none for every text with no opening
\* brace and for every text whose first opening brace is never closed.
C18_UnclosedGivesNone ==
    (Extracted /\ (FirstNeverClosed(ProbeText(probe))
                     \/ Places(ProbeText(probe), LBRACE) = {}))
        => probe.out = JNull

\* an unclosed opening brace before a complete object: none is returned
C18_UnclosedBeforeObject ==
    /\ Extracted
    /\ probe.pre = <<LBRACE, 32>>
    /\ probe.mid = F_good
    /\ probe.suf = <<>>
    /\ probe.out = JNull

-----------------------------------------------------------------------------
(* The order of the checks of validate_and_normalize_call *)

\* the arguments the checks read: `call.get("args") or {}`
ArgsRead(call) ==
    IF truthy(Get(call, K_args)) THEN Get(call, K_args) ELSE JDict(<<>>)

\* what each check refuses, each on its own
FailsAction(call) == Get(call, K_action) # JStr(S_tool_call)

FailsTool(call) ==
    Get(call, K_tool) \notin {JStr(S_current_error_services),
                              JStr(S_increasing_error_services)}

FailsCluster(call) ==
    \/ ArgsRead(call).t # "dict"
    \/ Get(ArgsRead(call), K_cluster).t # "str"
    \/ strip(Get(ArgsRead(call), K_cluster).s) = <<>>

FailsStatus(call) ==
    /\ ArgsRead(call).t = "dict"
    /\ Get(ArgsRead(call), K_status).t \notin {"str", "null"}

FailsNamespace(call) ==
    /\ ArgsRead(call).t = "dict"
    /\ Get(ArgsRead(call), K_namespace).t \notin {"str", "null"}

FailsNumeric(call) ==
    /\ ArgsRead(call).t = "dict"
    /\ \/ py_int(GetOr(ArgsRead(call), K_window_minutes, JInt(15))).exc # "none"
       \/ py_int(GetOr(ArgsRead(call), K_limit, JInt(10))).exc # "none"
       \/ /\ Get(call, K_tool) = JStr(S_increasing_error_services)
          /\ \/ py_int(GetOr(ArgsRead(call), K_min_delta, JInt(10))).exc # "none"
             \/ py_float(GetOr(ArgsRead(call), K_min_ratio, JFloat(20))).exc # "none"

\* the checks in the order action, tool, cluster, status, namespace, numeric
Refusals(call) ==
    <<FailsAction(call), FailsTool(call), FailsCluster(call), FailsStatus(call),
      FailsNamespace(call), FailsNumeric(call)>>

\* the first check that refuses the call; 0 when none does
FirstRefusal(call) ==
    IF \E i \in 1..6 : Refusals(call)[i]
    THEN CHOOSE i \in 1..6 :
            Refusals(call)[i] /\ \A j \in 1..(i - 1) : ~Refusals(call)[j]
    ELSE 0

\* the named errors of the first five checks
NamedErrors ==
    <<"Not a tool_call action", "Tool not allowed",
      "cluster must be specified explicitly", "status must be a string",
      "namespace must be a string or null">>

\* the check an outcome of validate_and_normalize_call comes from; 0 for a
\* normal return
ReportedBy(out) ==
    IF out.exc = "none" THEN 0
    ELSE IF out.exc = "ValueError" /\ \E i \in 1..5 : NamedErrors[i] = out.msg
    THEN CHOOSE i \in 1..5 : NamedErrors[i] = out.msg
    ELSE IF out.exc = "AttributeError" THEN 3
    ELSE 6

Checked == probe.op = "validate" /\ probe.done

\* C20: validate_and_normalize_call checks action, tool whitelist, cluster,
\* status, namespace and numeric coercion in this order, and the error it
\* reports is that of the first check that fails.
C20_FirstFailingCheckReported ==
    Checked => ReportedBy(probe.out) = FirstRefusal(probe.call)

\* a tool that is not allowed, no cluster and a status that is no string:
\* "Tool not allowed" is reported
C20_ToolBeforeCluster ==
    /\ Checked
    /\ ~FailsAction(probe.call)
    /\ FailsTool(probe.call)
    /\ FailsCluster(probe.call)
    /\ FailsStatus(probe.call)
    /\ probe.out.exc = "ValueError"
    /\ probe.out.msg = "Tool not allowed"

-----------------------------------------------------------------------------
(* Two invocations at once *)

\* the locals of invocation i
Own(i) == IF running = i THEN Locals ELSE peer

\* the entries of the given type in a trace
CountEntries(tr, type) == Cardinality({k \in 1..Len(tr) : tr[k].type = type})

\* the counters of an invocation count what that invocation did: its calls
\* of run_tool, its rejected final envelopes, its calls of llm_chat
CountsItsOwn(inv) ==
    /\ inv.tool_calls = inv.tool_runs
    /\ inv.lang_retry = CountEntries(inv.trace, "final_rejected_language")
    /\ Len(inv.messages) = Len(SeedMessages) + 2 * (inv.llm_calls - 1)

\* C16: two invocations of run_agent share no mutable state.  Under every
\* interleaving of their steps the conversation, trace, counters and result
\* of each change only by that invocation's own steps, which are the steps
\* it takes when run alone, and its counters count only what it did itself.
C16_InvocationsIndependent ==
    /\ [](\A i \in {1, 2} : CountsItsOwn(Own(i)))
    /\ [][\A i \in {1, 2} :
            \/ Own(i)' = Own(i)
            \/ running = i /\ running' = i /\ Step(PairReadings)]_vars

\* both invocations have a tool request in flight, each with its counter at 1
C16_BothInFlight ==
    /\ running = 2
    /\ pc = "tool"
    /\ tool_calls = 1
    /\ peer.pc = "tool"
    /\ peer.tool_calls = 1
    /\ peer.hints # hints

-----------------------------------------------------------------------------
(* Raw-text rejections within one model turn *)

\* the reply is a final envelope with no Han character, in its text or in
\* the envelope
CleanFinal(reply) ==
    /\ ~reply.han
    /\ truthy(reply.obj)
    /\ Get(reply.obj, K_action) = JStr(S_final)
    /\ ~contains_cjk(json_dumps(reply.obj))

\* C21: when the first reply holds a Han character and the second, after one
\* corrective re-prompt, is a clean final envelope, that envelope is returned
\* and the trace holds exactly one llm_raw_rejected_language entry, with
\* retry 1; within one model turn the k-th rejected raw reply is recorded
\* with retry k and is followed by exactly one new model call.
C21_RawRejectionsNumbered ==
    /\ [](pc = "model" =>
            \A k \in 1..raw_retry :
                trace[Len(trace) - raw_retry + k]
                    = Entry("llm_raw_rejected_language", k, ""))
    /\ [][\A reply \in LoopReadings :
            /\ (reply.han /\ raw_retry < RAW_RETRY_MAX /\ Heard(reply))
                  => /\ trace' = Append(trace, Entry("llm_raw_rejected_language",
                                                     raw_retry + 1, ""))
                     /\ llm_calls' = llm_calls + 1
                     /\ pc' = "model"
                     /\ tool_runs' = tool_runs
            /\ (/\ trace = <<Entry("llm_raw_rejected_language", 1, "")>>
                /\ CleanFinal(reply)
                /\ Heard(reply))
                  => /\ pc' = "returned"
                     /\ result' = reply.obj
                     /\ trace' = <<Entry("llm_raw_rejected_language", 1, ""),
                                   Entry("final", 0, "")>>]_vars

\* a Han reply, then the clean envelope: returned with the one rejection
C21_SecondReplyReturned ==
    /\ pc = "returned"
    /\ result = F_good
    /\ llm_calls = 2
    /\ trace = <<Entry("llm_raw_rejected_language", 1, ""), Entry("final", 0, "")>>

-----------------------------------------------------------------------------
(* The conversation *)

\* C22: the conversation is append-only: no step removes, reorders or
\* rewrites a message already appended; on a successful tool step nothing is
\* appended until the tool has answered, and then the call (assistant) and
\* right after it the compacted result (user), before the next model call.
C22_ConversationAppendOnly ==
    [][/\ Len(messages') >= Len(messages)
       /\ SubSeq(messages', 1, Len(messages)) = messages
       /\ pc' = "tool" => messages' = messages
       /\ (pc = "tool" /\ pc' = "model")
            => /\ messages' = messages \o <<Msg("assistant", "call"),
                                            Msg("user", "tool_result")>>
               /\ llm_calls' = llm_calls + 1
               /\ tool_runs' = tool_runs]_vars

\* after the first tool step: the seed, the call, the result, and the next
\* model call in progress
C22_CallThenResult ==
    /\ pc = "model"
    /\ tool_runs = 1
    /\ llm_calls = 2
    /\ messages = SeedMessages \o <<Msg("assistant", "call"), Msg("user", "tool_result")>>

-----------------------------------------------------------------------------
(* The sanitizer *)

\* y is x with every Han string value replaced by the fallback sentence and
\* nothing else changed: same keys in the same places, same list lengths and
\* order, same other leaves
RECURSIVE Repaired(_, _)
Repaired(x, y) ==
    IF x.t = "dict"
    THEN /\ y.t = "dict"
         /\ Len(y.items) = Len(x.items)
         /\ \A i \in 1..Len(x.items) :
               /\ y.items[i].s = x.items[i].s
               /\ Repaired(x.items[i].items[1], y.items[i].items[1])
    ELSE IF x.t = "list"
    THEN /\ y.t = "list"
         /\ Len(y.items) = Len(x.items)
         /\ \A i \in 1..Len(x.items) : Repaired(x.items[i], y.items[i])
    ELSE IF x.t = "str" /\ contains_cjk(x.s)
    THEN y = JStr(FALLBACK_SENTENCE)
    ELSE y = x

\* C23: sanitize_korean_only replaces every Han string value of the
\* envelope, at any depth, by the fallback sentence and leaves keys, other
\* strings, other leaves and list order and lengths unchanged; the fallback
\* sentence has no Han character, so sanitizing twice changes nothing more.
C23_SanitizerRepairsValues ==
    (probe.op = "sanitize" /\ probe.done)
        => /\ Repaired(probe.call, probe.out)
           /\ ~contains_cjk(FALLBACK_SENTENCE)
           /\ sanitize_korean_only(probe.out) = probe.out

\* a Han string in a list in a mapping in the envelope is replaced
C23_NestedValueReplaced ==
    /\ probe.op = "sanitize"
    /\ probe.done
    /\ probe.call
         = Put(F_good, K_detail, JDict(<<KV(K_foo, JList(<<JStr(HAN_TEXT), JInt(1)>>))>>))
    /\ probe.out
         = Put(F_good, K_detail,
               JDict(<<KV(K_foo, JList(<<JStr(FALLBACK_SENTENCE), JInt(1)>>))>>))

-----------------------------------------------------------------------------
(* Clamping *)

\* v when it lies in lo..hi, the nearer of lo and hi otherwise
Nearest(v, lo, hi) == IF v < lo THEN lo ELSE IF v > hi THEN hi ELSE v

\* the value of key k in the call comes out as the nearest value in lo..hi
\* of the integer given for it
ClampedArg(k, lo, hi) ==
    LET given == Get(ArgsRead(probe.call), k)
    IN  given.t = "int"
            => Get(Get(probe.out.call, K_args), k) = JInt(Nearest(given.n, lo, hi))

\* C24: clamp_int(v, lo, hi) lies in lo..hi for every integer v when
\* lo <= hi, and is v when v lies in lo..hi; the window_minutes and limit of
\* a validated call are the integer given when it is within the configured
\* bounds and the nearest bound otherwise.
C24_ClampedIntoBounds ==
    /\ (probe.op = "clamp" /\ probe.done)
          => LET v == probe.call.items[1].n
                 lo == probe.call.items[2].n
                 hi == probe.call.items[3].n
             IN  /\ probe.out.n >= lo
                 /\ probe.out.n <= hi
                 /\ (lo <= v /\ v <= hi) => probe.out.n = v
    /\ (Checked /\ probe.out.exc = "none")
          => /\ ClampedArg(K_window_minutes, WINDOW_MIN, WINDOW_MAX)
             /\ ClampedArg(K_limit, LIMIT_MIN, LIMIT_MAX)

\* a value one above the configured window maximum comes out as the maximum
C24_WindowOneAbove ==
    /\ probe.op = "clamp"
    /\ probe.done
    /\ probe.call = JList(<<JInt(WINDOW_MAX + 1), JInt(WINDOW_MIN), JInt(WINDOW_MAX)>>)
    /\ probe.out = JInt(WINDOW_MAX)

-----------------------------------------------------------------------------
(* The compactor *)

Compacted == probe.op = "compact" /\ probe.done

\* the rows of the tool's answer
RowsGiven == OrEmptyList(Get(probe.call, K_services)).items

\* the rows of the compacted answer
RowsKept == Get(probe.out, K_services_top5).items

\* C25: the compacted result holds the first min(5, n) of the tool's n rows
\* in their order, each with at most one sample string of at most 220
\* characters, and services_total is n.
C25_CompactIsBounded ==
    Compacted
        => /\ Get(probe.out, K_services_total) = JInt(Len(RowsGiven))
           /\ Len(RowsKept) = Min(TOP_ROWS, Len(RowsGiven))
           /\ \A i \in 1..Len(RowsKept) :
                 /\ \A j \in 1..Len(ROW_KEYS) :
                       Get(RowsKept[i], ROW_KEYS[j]) = Get(RowsGiven[i], ROW_KEYS[j])
                 /\ Keys(RowsKept[i]) \subseteq
                       {ROW_KEYS[j] : j \in 1..Len(ROW_KEYS)} \cup {K_sample}
                 /\ Len(RowsKept[i].items) <= Len(ROW_KEYS) + 1
                 /\ HasKey(RowsKept[i], K_sample)
                       => /\ Get(RowsKept[i], K_sample).t = "str"
                          /\ Len(Get(RowsKept[i], K_sample).s) <= SAMPLE_MAX

\* seven rows, one of them with a sample of 221 characters among the first
\* five: five rows are kept and that sample is cut to 220 characters
C25_LongSampleCut ==
    /\ Compacted
    /\ Len(RowsGiven) = TOP_ROWS + 2
    /\ Len(RowsKept) = TOP_ROWS
    /\ \E i \in 1..TOP_ROWS :
          /\ Len(Get(RowsGiven[i], K_samples).items) = 1
          /\ Len(Get(RowsGiven[i], K_samples).items[1].s) = SAMPLE_MAX + 1
          /\ Len(Get(RowsKept[i], K_sample).s) = SAMPLE_MAX

-----------------------------------------------------------------------------
(* The shape of the conversation *)

\* C26: at every model call the conversation is the three seed messages
\* (system, system, user) followed by assistant/user pairs in alternation:
\* its last message is a user message and at the k-th model call its length
\* is 3 + 2 * (k - 1); every model call after the first follows exactly one
\* new assistant message and one new user message.
C26_SeedThenPairs ==
    /\ [](pc = "model" =>
            /\ Len(messages) = Len(SeedMessages) + 2 * (llm_calls - 1)
            /\ SubSeq(messages, 1, Len(SeedMessages)) = SeedMessages
            /\ \A i \in (Len(SeedMessages) + 1)..Len(messages) :
                  messages[i].role = IF i % 2 = 0 THEN "assistant" ELSE "user"
            /\ messages[Len(messages)].role = "user")
    /\ [][llm_calls' = llm_calls + 1 =>
            /\ Len(messages') = Len(messages) + 2
            /\ messages'[Len(messages) + 1].role = "assistant"
            /\ messages'[Len(messages) + 2].role = "user"]_vars

\* the fourth model call, after a raw-text rejection, a tool step and a
\* rejected final envelope
C26_FourthModelCall ==
    /\ pc = "model"
    /\ llm_calls = 4
    /\ Len(messages) = 9
    /\ CountMessages("raw_language_fix") = 1
    /\ CountMessages("tool_result") = 1
    /\ CountMessages("final_language_fix") = 1

-----------------------------------------------------------------------------
(* The language of the returned envelope *)

\* some string value of x, at any depth, holds a Han character
RECURSIVE HanInValues(_)
HanInValues(x) ==
    IF x.t = "dict"
    THEN \E i \in 1..Len(x.items) : HanInValues(x.items[i].items[1])
    ELSE IF x.t = "list"
    THEN \E i \in 1..Len(x.items) : HanInValues(x.items[i])
    ELSE x.t = "str" /\ contains_cjk(x.s)

\* C27: on every return path (compliant final, sanitized final, parse-failure
\* diagnostic, unknown-action diagnostic) the envelope run_agent returns has
\* no Han character in any of its string values.
C27_ReturnedValuesHaveNoHan == Returned => ~HanInValues(result)

====
